---- MODULE Spec2Model ----
(***************************************************************************)
(* Schema construction of magql.                                           *)
(*                                                                         *)
(* Two builders are modelled, each from its source:                        *)
(*   - MagqlTableManagerCollection.__init__ (manager.py): one manager per  *)
(*     table, type references by name, add_rels as the second pass;        *)
(*   - MagqlSchema.__init__ (convert.py): table_types per table, the       *)
(*     relationship loop as the second pass.                               *)
(* The table metadata (columns, relationships, mappers) is the input; it   *)
(* is drawn in Init and never changes.                                     *)
(*                                                                         *)
(* merge_schema and override_resolver (convert.py) act on the assembled    *)
(* schema as a graph of type objects and field objects with identity; they *)
(* are modelled in MergeSpec, which starts where MagqlSchema.__init__ has  *)
(* assembled self.schema.                                                  *)
(*                                                                         *)
(* generate_filters and the comparators of get_filter_comparator           *)
(* (filter.py, magql_filter.py) are modelled in FilterSpec, one call of    *)
(* generate_filters per behaviour.                                         *)
(***************************************************************************)
EXTENDS Integers, Sequences, FiniteSets, TLC

VARIABLES
    mode,            \* which builder runs: "manager" or "schema"
    tables,          \* the batch: sequence of table names (dict order)
    relationships,   \* the mappers' relationships (input metadata)
    unmapped,        \* tables for which get_mapper raises ValueError
    pc,              \* position of the constructor
    idx,             \* index of the next table / manager of the running loop
    manager_map,     \* MagqlTableManagerCollection.manager_map
    table_types,     \* MagqlSchema.table_types
    query_fields,    \* MagqlSchema.__init__: query_fields
    mutation_fields, \* MagqlSchema.__init__: mutation_fields
    error,           \* the exception that escaped the constructor, or "none"
    warnings,        \* tables for which the "No mapper" message was emitted
    rewired,         \* whether the host has called add_rels again after construction
    objects,         \* the GraphQL type objects, by identity
    field_objects,   \* the GraphQLField objects, by identity
    schema,          \* MagqlSchema.schema: the root objects of the active schema
    existing_schema, \* the schema handed to merge_schema
    joined_type_map, \* merge_schema: joined_type_map
    overridden,      \* the field name the host has called override_resolver with, if any
    filter_module,   \* which module's generate_filters runs: "filter" or "magql_filter"
    kwargs,          \* generate_filters: the keyword arguments of the call
    filter_type,     \* generate_filters: the local filter_type, unbound at first
    sqla_filters,    \* generate_filters: sqla_filters
    logged           \* the messages generate_filters and the comparators emit

vars == <<mode, tables, relationships, unmapped, pc, idx, manager_map,
          table_types, query_fields, mutation_fields, error, warnings, rewired,
          objects, field_objects, schema, existing_schema, joined_type_map, overridden,
          filter_module, kwargs, filter_type, sqla_filters, logged>>

\* the object graph of the assembled schema, which no step of the two
\* constructors' loops touches
Graph == <<objects, field_objects, schema, existing_schema, joined_type_map, overridden>>

\* the state of a generate_filters call, which no step of schema
\* construction or merging touches
Filtering == <<filter_module, kwargs, filter_type, sqla_filters, logged>>

---------------------------------------------------------------------------
(* Bounds of the model *)

\* longest batch of tables handed to a builder
MaxTables == 2

---------------------------------------------------------------------------
(* The table metadata universe *)

TableNames == {"customer", "order", "sheep"}

\* table.c of each table: name, python type of the column type, primary key,
\* foreign key, nullable
Col(n, ty, pk, fk, nul) ==
    [name |-> n, python_type |-> ty, primary_key |-> pk, foreign_keys |-> fk, nullable |-> nul]

Columns(t) ==
    CASE t = "customer" -> << Col("id", "int", TRUE, FALSE, FALSE),
                              Col("name", "str", FALSE, FALSE, FALSE) >>
      [] t = "order"    -> << Col("id", "str", TRUE, FALSE, FALSE),
                              Col("customer_id", "int", FALSE, TRUE, FALSE),
                              Col("line_items", "str", FALSE, FALSE, TRUE) >>
      [] t = "sheep"    -> << Col("id", "uuid", TRUE, FALSE, FALSE),
                              Col("customer", "str", FALSE, FALSE, FALSE) >>

RelNames == {"customer", "line_items"}
Directions == {"MANYTOONE", "ONETOMANY", "MANYTOMANY"}

\* inflection.camelize(word): upper camel case
camelize(w) ==
    CASE w = "customer" -> "Customer"
      [] w = "order" -> "Order"
      [] w = "sheep" -> "Sheep"
      [] w = "line_items" -> "LineItems"
      [] w = "customer_id" -> "CustomerId"
      [] w = "name" -> "Name"
      [] w = "id" -> "Id"
      [] OTHER -> w

\* definitions.js_camelize(word) = camelize(word, False): lower camel case
js_camelize(w) ==
    CASE w = "line_items" -> "lineItems"
      [] w = "customer_id" -> "customerId"
      [] OTHER -> w

\* inflection.pluralize(word); "sheep" is uncountable
pluralize(w) ==
    CASE w = "customer" -> "customers"
      [] w = "order" -> "orders"
      [] w = "sheep" -> "sheep"
      [] OTHER -> w \o "s"

---------------------------------------------------------------------------
(* Type references: a name to be resolved, a type object, or a wrapper *)

Named(n) == [kind |-> "Name", name |-> n, of |-> <<>>]
Obj(n) == [kind |-> "Obj", name |-> n, of |-> <<>>]
MagqlList(t) == [kind |-> "List", name |-> "", of |-> <<t>>]
MagqlNonNull(t) == [kind |-> "NonNull", name |-> "", of |-> <<t>>]

IsWrapper(t) == t.kind \in {"List", "NonNull"}

RECURSIVE Innermost(_)
Innermost(t) == IF IsWrapper(t) THEN Innermost(t.of[1]) ELSE t

RECURSIVE HasNonNull(_)
HasNonNull(t) ==
    IF t.kind = "NonNull" THEN TRUE
    ELSE IF t.kind = "List" THEN HasNonNull(t.of[1])
    ELSE FALSE

NoFields == <<>>
NoArgs == <<>>

\* MagqlField(type, args, resolve)
MagqlField(ty, args, res) == [type |-> ty, args |-> args, resolve |-> res]
\* MagqlInputField(type) and MagqlArgument(type)
MagqlInputField(ty) == [type |-> ty, args |-> NoArgs, resolve |-> "none"]
MagqlArgument(ty) == ty

\* A registry entry: an object / input object / enum / union, possibly
\* wrapped in NonNull
TypeNode(k, n, fs, vals, nn) ==
    [kind |-> k, name |-> n, fields |-> fs, values |-> vals, nonnull |-> nn]
MagqlObjectType(n, fs) == TypeNode("Object", n, fs, {}, FALSE)
MagqlInputObjectType(n, fs) == TypeNode("InputObject", n, fs, {}, FALSE)
MagqlEnumType(n, vals) == TypeNode("Enum", n, NoFields, vals, FALSE)
MagqlUnionType(n, members) == TypeNode("Union", n, NoFields, members, FALSE)
NonNullNode(node) == [node EXCEPT !.nonnull = TRUE]

---------------------------------------------------------------------------
(* Dictionaries: assignment d[k] = v replaces an existing entry silently *)

Put(d, k, v) == (k :> v) @@ d

\* Optional values: None is the empty sequence, a value v is <<v>>
None == <<>>
Some(v) == <<v>>
IsNone(o) == Len(o) = 0

\* The index of the last column whose camel-cased name is f (a dict built by
\* assignments in column order keeps the last one)
LastCol(cols, f) ==
    LET I == {i \in 1..Len(cols) : js_camelize(cols[i].name) = f}
    IN  cols[CHOOSE i \in I : \A j \in I : j <= i]

---------------------------------------------------------------------------
(* magql.type, which the column pass calls for each column *)

ScalarOf(ty) ==
    CASE ty = "str" -> "String"
      [] ty = "int" -> "Int"
      [] ty = "float" -> "Float"
      [] ty = "bool" -> "Boolean"
      [] OTHER -> "String"

get_magql_type(col) == Obj(ScalarOf(col.python_type))

get_magql_required_type(col) ==
    IF col.nullable THEN get_magql_type(col) ELSE MagqlNonNull(get_magql_type(col))

get_magql_filter_type(col) == Obj(ScalarOf(col.python_type) \o "Filter")

RelFilter == Obj("RelFilter")

---------------------------------------------------------------------------
(* MagqlTableManager (manager.py) *)

\* is_rel_required(rel): not fk.nullable
is_rel_required(rel) == ~rel.nullable

\* MagqlManager.__init__
MagqlManager(magql_name) ==
    [cls |-> "MagqlManager", magql_name |-> magql_name,
     query |-> NoFields, mutation |-> NoFields, magql_types |-> <<>>]

single_query_name(table) == js_camelize(table)
many_query_name(table) == js_camelize(pluralize(table))
create_mutation_name(magql_name) == "create" \o magql_name
update_mutation_name(magql_name) == "update" \o magql_name
delete_mutation_name(magql_name) == "delete" \o magql_name

generate_create_mutation(magql_name, table) ==
    MagqlField(Named(magql_name \o "Payload"),
               [input |-> MagqlArgument(MagqlNonNull(Named(magql_name \o "InputRequired")))],
               "CreateResolver")

generate_update_mutation(magql_name, table) ==
    MagqlField(Named(magql_name \o "Payload"),
               [id |-> MagqlArgument(MagqlNonNull(Named("ID"))),
                input |-> MagqlArgument(MagqlNonNull(Named(magql_name \o "Input")))],
               "UpdateResolver")

generate_delete_mutation(magql_name, table) ==
    MagqlField(Named(magql_name \o "Payload"),
               [id |-> MagqlArgument(MagqlNonNull(Named("ID")))],
               "DeleteResolver")

generate_single_query(magql_name, table) ==
    MagqlField(Named(magql_name \o "Payload"),
               [id |-> MagqlArgument(MagqlNonNull(Named("ID")))],
               "SingleResolver")

generate_many_query(magql_name, table) ==
    MagqlField(Named(magql_name \o "ListPayload"),
               [filter |-> MagqlArgument(Named(magql_name \o "Filter")),
                sort |-> MagqlArgument(MagqlList(MagqlNonNull(Named(magql_name \o "Sort")))),
                page |-> MagqlArgument(Named("Page"))],
               "ManyResolver")

\* a column loop whose sort values do not skip the foreign-key columns
generate_types_sorting_foreign_keys(magql_name, table) ==
    LET cols == Columns(table)
        plain == {i \in 1..Len(cols) : ~cols[i].foreign_keys}
        names == {js_camelize(cols[i].name) : i \in plain}
        every == {js_camelize(cols[i].name) : i \in 1..Len(cols)}
        writable == {js_camelize(cols[i].name) : i \in {j \in plain : ~cols[j].primary_key}}
    IN  Put(Put(Put(Put(Put(<<>>,
            magql_name, MagqlObjectType(magql_name,
                [f \in names |->
                    MagqlField(get_magql_type(LastCol(cols, f)), NoArgs, "CamelResolver")])),
            magql_name \o "Input", MagqlInputObjectType(magql_name \o "Input",
                [f \in writable |-> MagqlInputField(get_magql_type(LastCol(cols, f)))])),
            magql_name \o "InputRequired", MagqlInputObjectType(magql_name \o "InputRequired",
                [f \in writable |->
                    MagqlInputField(get_magql_required_type(LastCol(cols, f)))])),
            magql_name \o "Filter", MagqlInputObjectType(magql_name \o "Filter",
                [f \in names |-> MagqlInputField(get_magql_filter_type(LastCol(cols, f)))])),
            magql_name \o "Sort", MagqlEnumType(magql_name \o "Sort",
                {f \o "_asc" : f \in every} \cup {f \o "_desc" : f \in every}))

\* a column loop without the primary-key test on the two input nodes
generate_types_with_key_inputs(magql_name, table) ==
    LET cols == Columns(table)
        plain == {i \in 1..Len(cols) : ~cols[i].foreign_keys}
        names == {js_camelize(cols[i].name) : i \in plain}
    IN  Put(Put(Put(Put(Put(<<>>,
            magql_name, MagqlObjectType(magql_name,
                [f \in names |->
                    MagqlField(get_magql_type(LastCol(cols, f)), NoArgs, "CamelResolver")])),
            magql_name \o "Input", MagqlInputObjectType(magql_name \o "Input",
                [f \in names |-> MagqlInputField(get_magql_type(LastCol(cols, f)))])),
            magql_name \o "InputRequired", MagqlInputObjectType(magql_name \o "InputRequired",
                [f \in names |->
                    MagqlInputField(get_magql_required_type(LastCol(cols, f)))])),
            magql_name \o "Filter", MagqlInputObjectType(magql_name \o "Filter",
                [f \in names |-> MagqlInputField(get_magql_filter_type(LastCol(cols, f)))])),
            magql_name \o "Sort", MagqlEnumType(magql_name \o "Sort",
                {f \o "_asc" : f \in names} \cup {f \o "_desc" : f \in names}))

\* generate_types: the five column-only type nodes of one table
generate_types(magql_name, table) ==
    LET cols == Columns(table)
        plain == {i \in 1..Len(cols) : ~cols[i].foreign_keys}
        names == {js_camelize(cols[i].name) : i \in plain}
        writable == {js_camelize(cols[i].name) : i \in {j \in plain : ~cols[j].primary_key}}
        base == MagqlObjectType(magql_name,
                    [f \in names |->
                        MagqlField(get_magql_type(LastCol(cols, f)), NoArgs, "CamelResolver")])
        input == MagqlInputObjectType(magql_name \o "Input",
                    [f \in writable |-> MagqlInputField(get_magql_type(LastCol(cols, f)))])
        input_required == MagqlInputObjectType(magql_name \o "InputRequired",
                    [f \in writable |->
                        MagqlInputField(get_magql_required_type(LastCol(cols, f)))])
        filter_ == MagqlInputObjectType(magql_name \o "Filter",
                    [f \in names |-> MagqlInputField(get_magql_filter_type(LastCol(cols, f)))])
        sort == MagqlEnumType(magql_name \o "Sort",
                    {f \o "_asc" : f \in names} \cup {f \o "_desc" : f \in names})
    IN  Put(Put(Put(Put(Put(<<>>,
            magql_name, base),
            magql_name \o "Input", input),
            magql_name \o "InputRequired", input_required),
            magql_name \o "Filter", filter_),
            magql_name \o "Sort", sort)

\* MagqlTableManager.__init__ with the default magql_name, ending in
\* generate_magql_types
MagqlTableManager(table) ==
    LET magql_name == camelize(table)
    IN  [cls |-> "MagqlTableManager", magql_name |-> magql_name, table |-> table,
         query |-> NoFields, mutation |-> NoFields,
         create |-> generate_create_mutation(magql_name, table),
         update |-> generate_update_mutation(magql_name, table),
         delete |-> generate_delete_mutation(magql_name, table),
         single |-> generate_single_query(magql_name, table),
         many |-> generate_many_query(magql_name, table),
         magql_types |-> generate_types(magql_name, table)]

\* to_magql: the five operation fields are stored into the manager's own
\* mutation and query objects by plain dict assignment
to_magql(m) ==
    [m EXCEPT
        !.mutation = Put(Put(Put(m.mutation,
                        create_mutation_name(m.magql_name), m.create),
                        update_mutation_name(m.magql_name), m.update),
                        delete_mutation_name(m.magql_name), m.delete),
        !.query = Put(Put(m.query,
                        single_query_name(m.table), m.single),
                        many_query_name(m.table), m.many)]

\* a manager built whether or not the table has a mapper
generate_manager_always(table) == Some(MagqlTableManager(table))

\* generate_manager: None (with a warning) when the table has no mapper
generate_manager(table) ==
    IF table \in unmapped THEN None ELSE Some(MagqlTableManager(table))

---------------------------------------------------------------------------
(* MagqlTableManager.add_rels *)

\* input_field_types: python type of the target's primary key -> scalar name
input_field_types == [str |-> "String", int |-> "Int", bool |-> "Boolean", float |-> "Float"]

\* rel_table.primary_key.columns.id.type.python_type
PrimaryKeyPythonType(table) ==
    LET cols == Columns(table)
        i == CHOOSE j \in 1..Len(cols) : cols[j].primary_key /\ cols[j].name = "id"
    IN  cols[i].python_type

IsToMany(direction) == direction \in {"ONETOMANY", "MANYTOMANY"}

\* target_name: the magql name of the target's manager if the manager map has
\* one, else the default name of the target table
rel_target_name(rel, managers) ==
    IF rel.target \in DOMAIN managers
    THEN managers[rel.target][1].magql_name
    ELSE camelize(rel.target)

\* a test against one direction name instead of the "TOMANY" substring
rel_base_field_one_to_many_only(direction, target_name) ==
    IF direction = "ONETOMANY" THEN MagqlList(Named(target_name)) ELSE Named(target_name)

\* base_field: the type of the Object field of a relationship
rel_base_field(direction, target_name) ==
    IF IsToMany(direction) THEN MagqlList(Named(target_name)) ELSE Named(target_name)

\* input_field: the type of the Input field of a relationship
rel_input_field(direction, field_type) ==
    IF IsToMany(direction) THEN MagqlList(Named(field_type)) ELSE Named(field_type)

\* NonNull decided by required alone, whatever the direction
rel_input_required_field_always(direction, required, field_type) ==
    LET inner == IF IsToMany(direction) THEN MagqlList(Named(field_type)) ELSE Named(field_type)
    IN  IF required THEN MagqlNonNull(inner) ELSE inner

\* input_required_field: the type of the InputRequired field of a relationship
rel_input_required_field(direction, required, field_type) ==
    IF IsToMany(direction) THEN MagqlList(Named(field_type))
    ELSE IF required THEN MagqlNonNull(Named(field_type))
    ELSE Named(field_type)

\* an unguarded assignment
AddFieldAlways(types, type_name, field_name, field) ==
    [types EXCEPT ![type_name].fields = Put(@, field_name, field)]

\* "if field_name not in <node>.fields: <node>.fields[field_name] = field"
AddFieldIfAbsent(types, type_name, field_name, field) ==
    IF field_name \in DOMAIN types[type_name].fields
    THEN types
    ELSE [types EXCEPT ![type_name].fields = Put(@, field_name, field)]

\* the four guarded insertions of one relationship
wire_relationship(m, rel, target_name, field_type) ==
    LET direction == rel.direction
        required == is_rel_required(rel)
        field_name == js_camelize(rel.name)
        n == m.magql_name
        t1 == AddFieldIfAbsent(m.magql_types, n \o "InputRequired", field_name,
                  MagqlInputField(rel_input_required_field(direction, required, field_type)))
        t2 == AddFieldIfAbsent(t1, n \o "Input", field_name,
                  MagqlInputField(rel_input_field(direction, field_type)))
        t3 == AddFieldIfAbsent(t2, n, field_name,
                  MagqlField(rel_base_field(direction, target_name), NoArgs, "Resolver"))
        t4 == AddFieldIfAbsent(t3, n \o "Filter", field_name, MagqlInputField(RelFilter))
    IN  [m EXCEPT !.magql_types = t4]

\* a Payload left without its NonNull wrapper
PayloadTypeBare(magql_name) ==
    MagqlObjectType(magql_name \o "Payload",
        [errors |-> MagqlField(MagqlList(Named("String")), NoArgs, "none"),
         result |-> MagqlField(Named(magql_name), NoArgs, "ResultResolver")])

\* the Payload and ListPayload entries registered at the end of add_rels
PayloadType(magql_name) ==
    NonNullNode(MagqlObjectType(magql_name \o "Payload",
        [errors |-> MagqlField(MagqlList(Named("String")), NoArgs, "none"),
         result |-> MagqlField(Named(magql_name), NoArgs, "ResultResolver")]))

ListPayloadType(magql_name) ==
    NonNullNode(MagqlObjectType(magql_name \o "ListPayload",
        [errors |-> MagqlField(MagqlList(Named("String")), NoArgs, "none"),
         result |-> MagqlField(MagqlList(Named(magql_name)), NoArgs, "ResultResolver"),
         count |-> MagqlField(Named("Int"), NoArgs, "CountResolver")]))

register_payloads(m) ==
    [m EXCEPT !.magql_types =
        Put(Put(@, m.magql_name \o "Payload", PayloadType(m.magql_name)),
            m.magql_name \o "ListPayload", ListPayloadType(m.magql_name))]

\* a loop that falls back to ID when the key type is not in the table,
\* instead of raising
RECURSIVE add_rels_loop_lenient(_, _, _, _)
add_rels_loop_lenient(m, managers, rels, i) ==
    IF i > Len(rels)
    THEN [manager |-> register_payloads(m), error |-> "none"]
    ELSE LET rel == rels[i] IN
         IF rel.target \in DOMAIN managers /\ IsNone(managers[rel.target])
         THEN add_rels_loop_lenient(m, managers, rels, i + 1)
         ELSE add_rels_loop_lenient(
                  wire_relationship(m, rel, rel_target_name(rel, managers),
                      IF PrimaryKeyPythonType(rel.target) \in DOMAIN input_field_types
                      THEN input_field_types[PrimaryKeyPythonType(rel.target)]
                      ELSE "ID"),
                  managers, rels, i + 1)

\* the loop over table_mapper.relationships.items(), from relationship i of
\* rels on; the result is the manager as add_rels leaves it and the exception
\* that escaped, if any
RECURSIVE add_rels_loop(_, _, _, _)
add_rels_loop(m, managers, rels, i) ==
    IF i > Len(rels)
    THEN [manager |-> register_payloads(m), error |-> "none"]
    ELSE LET rel == rels[i] IN
         IF rel.target \in DOMAIN managers /\ IsNone(managers[rel.target])
         THEN add_rels_loop(m, managers, rels, i + 1)
         ELSE IF PrimaryKeyPythonType(rel.target) \notin DOMAIN input_field_types
         THEN [manager |-> m, error |-> "KeyError"]
         ELSE add_rels_loop(
                  wire_relationship(m, rel, rel_target_name(rel, managers),
                                    input_field_types[PrimaryKeyPythonType(rel.target)]),
                  managers, rels, i + 1)

\* add_rels(managers); rels are the mapper's relationships in dict order
add_rels(m, managers, rels) ==
    IF m.table \in unmapped
    THEN [manager |-> m, error |-> "none"]
    ELSE add_rels_loop(m, managers, rels, 1)

\* The relationships of a table's mapper, and the orders a dict can hold them in
RelsOf(table) == {r \in relationships : r.src = table}
Orders(S) ==
    {s \in [1..Cardinality(S) -> S] : \A x \in S : \E i \in 1..Cardinality(S) : s[i] = x}

---------------------------------------------------------------------------
(* MagqlTableManagerCollection (manager.py) *)

\* generate_check_delete: the checkDelete manager
check_delete_manager(managers, keys) ==
    LET magql_names == {managers[k][1].magql_name :
                            k \in {j \in keys : ~IsNone(managers[j])}}
        m == MagqlManager("checkDelete")
    IN  [m EXCEPT
            !.magql_types = Put(@, "SQLAlchemyTableUnion",
                                MagqlUnionType("SQLAlchemyTableUnion", magql_names)),
            !.query = Put(@, "checkDelete",
                          MagqlField(MagqlList(Named("SQLAlchemyTableUnion")),
                                     [tableName |-> MagqlArgument(Named("String")),
                                      id |-> MagqlArgument(MagqlNonNull(Named("ID")))],
                                     "CheckDeleteResolver"))]

\* generate_pagination: the manager holding the Page input
page_manager ==
    LET m == MagqlManager("PaginationManager")
    IN  [m EXCEPT
            !.magql_types = Put(@, "Page",
                                MagqlInputObjectType("Page",
                                    [current |-> MagqlInputField(Obj("Int")),
                                     per_page |-> MagqlInputField(Obj("Int"))]))]

---------------------------------------------------------------------------
(* MagqlSchema (convert.py) *)

GraphQLID == Obj("ID")
GraphQLString == Obj("String")

\* magql.get_type, which build_fields_from_column calls for each column
get_type(col) == Obj(ScalarOf(col.python_type))
get_required_type(col) == IF col.nullable THEN get_type(col) ELSE MagqlNonNull(get_type(col))
get_filter_type(col) == Obj(ScalarOf(col.python_type) \o "Filter")

\* build_fields_from_column and generate_column_object_types: the type nodes
\* of one table, from its columns only
generate_column_object_types(table_name, table) ==
    LET cols == Columns(table)
        plain == {i \in 1..Len(cols) : ~cols[i].foreign_keys}
        names == {js_camelize(cols[i].name) : i \in plain}
        camelized == camelize(table)
        gql_object == MagqlObjectType(camelized,
                        [f \in names |-> MagqlField(get_type(LastCol(cols, f)), NoArgs, "none")])
    IN  [object |-> gql_object,
         filter |-> MagqlInputObjectType(camelized \o "Filter",
                        [f \in names |-> get_filter_type(LastCol(cols, f))]),
         sort |-> MagqlEnumType(camelized \o "Sort",
                        {f \o "_asc" : f \in names} \cup {f \o "_desc" : f \in names}),
         input |-> MagqlInputObjectType(camelized \o "Input",
                        [f \in names |-> MagqlInputField(get_type(LastCol(cols, f)))]),
         required_input |-> MagqlInputObjectType(camelized \o "InputRequired",
                        [f \in names |-> MagqlInputField(get_required_type(LastCol(cols, f)))]),
         payload |-> NonNullNode(MagqlObjectType(camelized \o "Payload",
                        Put(Put(NoFields, "error", MagqlList(GraphQLString)),
                            table_name, Obj(camelized))))]

\* generate_mutations: the three mutation fields of one table
generate_mutations(table_name, table) ==
    LET camelized == js_camelize(table_name)
        payload == MagqlNonNull(Obj(camelize(table) \o "Payload"))
        id_arg == MagqlArgument(MagqlNonNull(GraphQLID))
        input_arg == MagqlArgument(MagqlNonNull(Obj(camelize(table) \o "Input")))
        required_input_arg == MagqlArgument(MagqlNonNull(Obj(camelize(table) \o "InputRequired")))
    IN  Put(Put(Put(<<>>,
            "create" \o camelized, MagqlField(payload, [input |-> required_input_arg], "CreateResolver")),
            "update" \o camelized, MagqlField(payload, [id |-> id_arg, input |-> input_arg], "UpdateResolver")),
            "delete" \o camelized, MagqlField(payload, [id |-> id_arg], "DeleteResolver"))

\* generate_column_queries: a dict literal with the single and the many query
generate_column_queries(table_name, table) ==
    LET obj == Obj(camelize(table))
    IN  Put(Put(<<>>,
            js_camelize(table_name),
            MagqlField(obj, [id |-> MagqlArgument(MagqlNonNull(GraphQLID))], "SingleResolver")),
            js_camelize(pluralize(table_name)),
            MagqlField(MagqlList(obj),
                       [filter |-> MagqlArgument(Obj(camelize(table) \o "Filter")),
                        sort |-> MagqlArgument(MagqlList(MagqlNonNull(Obj(camelize(table) \o "Sort"))))],
                       "ManyResolver"))

\* {**d1, **d2}: the entries of d2 replace those of d1
MergeDicts(d1, d2) == d2 @@ d1

\* rel_object, rel_input and rel_required_input of the relationship loop
schema_rel_object(direction, target_object) ==
    IF IsToMany(direction) THEN MagqlList(target_object) ELSE target_object

schema_rel_input(direction) ==
    IF IsToMany(direction) THEN MagqlList(GraphQLID) ELSE GraphQLID

\* the required variant built like the plain input, without NonNull
schema_rel_required_input_plain(direction, required) ==
    IF IsToMany(direction) THEN MagqlList(GraphQLID) ELSE GraphQLID

schema_rel_required_input(direction, required) ==
    IF IsToMany(direction) THEN MagqlList(GraphQLID)
    ELSE IF required THEN MagqlNonNull(GraphQLID)
    ELSE GraphQLID

\* the four unconditional assignments of one relationship
schema_wire_relationship(types, rel) ==
    LET direction == rel.direction
        required == is_rel_required(rel)
        rel_object == Obj(types[rel.target].object.name)
        relationship_name == js_camelize(rel.name)
    IN  [types EXCEPT
            ![rel.src].required_input.fields =
                Put(@, relationship_name, MagqlInputField(schema_rel_required_input(direction, required))),
            ![rel.src].input.fields =
                Put(@, relationship_name, MagqlInputField(schema_rel_input(direction))),
            ![rel.src].object.fields =
                Put(@, relationship_name,
                    MagqlField(schema_rel_object(direction, rel_object), NoArgs, "Resolver")),
            ![rel.src].filter.fields =
                Put(@, relationship_name, MagqlInputField(RelFilter))]

\* the loop over one table's relationships; table_types[rel.target] raises
\* KeyError when the target has no types
RECURSIVE schema_rels_loop(_, _, _)
schema_rels_loop(types, rels, i) ==
    IF i > Len(rels)
    THEN [types |-> types, error |-> "none"]
    ELSE IF rels[i].target \notin DOMAIN types
    THEN [types |-> types, error |-> "KeyError"]
    ELSE schema_rels_loop(schema_wire_relationship(types, rels[i]), rels, i + 1)

---------------------------------------------------------------------------
(* The inputs of a build *)

\* sequences of distinct tables, of length 1..MaxTables
Batches ==
    UNION {{s \in [1..n -> TableNames] : \A i, j \in 1..n : s[i] = s[j] => i = j} :
              n \in 1..MaxTables}

Range(s) == {s[i] : i \in 1..Len(s)}

\* The relationships a mapper of one of the sources may declare: a to-one
\* relationship is named "customer", a to-many one "line_items"
RelCandidates(sources, name) ==
    {r \in [src : sources, name : {name}, target : TableNames,
            direction : Directions, nullable : BOOLEAN] :
        /\ (r.name = "customer") = (r.direction = "MANYTOONE")
        /\ r.direction = "MANYTOMANY" => ~r.nullable}

\* The metadata holds at most one relationship of each name
RelSets(sources) ==
    {A \cup B : A \in {{}} \cup {{r} : r \in RelCandidates(sources, "customer")},
                B \in {{}} \cup {{r} : r \in RelCandidates(sources, "line_items")}}

Init ==
    /\ mode \in {"manager", "schema"}
    /\ tables \in Batches
    /\ unmapped \in {{}, {"customer"} \cap Range(tables)}
    /\ relationships \in RelSets(Range(tables) \ unmapped)
    /\ pc = "pass1"
    /\ idx = 1
    /\ manager_map = <<>>
    /\ table_types = <<>>
    /\ query_fields = <<>>
    /\ mutation_fields = <<>>
    /\ error = "none"
    /\ warnings = {}
    /\ rewired = FALSE
    /\ objects = <<>>
    /\ field_objects = <<>>
    /\ schema = [query |-> None, mutation |-> None]
    /\ existing_schema = [query |-> None, mutation |-> None]
    /\ joined_type_map = <<>>
    /\ overridden = None
    /\ filter_module = "filter"
    /\ kwargs = <<>>
    /\ filter_type = None
    /\ sqla_filters = <<>>
    /\ logged = <<>>

Inputs == <<mode, tables, relationships, unmapped>>

\* where the loop over the batch goes after iteration idx
LoopNext(after) ==
    IF idx = Len(tables)
    THEN pc' = after /\ idx' = 1
    ELSE pc' = pc /\ idx' = idx + 1

---------------------------------------------------------------------------
(* MagqlTableManagerCollection.__init__ *)

\* a single-pass build: each manager is wired as soon as it is built
BuildManagerAndWire ==
    /\ mode = "manager" /\ pc = "pass1"
    /\ LET table == tables[idx]
           manager == generate_manager(table)
           new_map == Put(manager_map, table,
                          IF IsNone(manager) THEN None ELSE Some(to_magql(manager[1])))
       IN  /\ warnings' = IF IsNone(manager) THEN warnings \cup {table} ELSE warnings
           /\ IF IsNone(manager)
              THEN manager_map' = new_map /\ error' = error
              ELSE \E rels \in Orders(RelsOf(table)) :
                     LET res == add_rels(new_map[table][1], new_map, rels) IN
                     /\ manager_map' = [new_map EXCEPT ![table] = Some(res.manager)]
                     /\ error' = error
    /\ LoopNext("check_delete")
    /\ UNCHANGED <<Inputs, Graph, Filtering, table_types, query_fields, mutation_fields, rewired>>

\* first loop: one iteration, for tables[idx]
BuildManager ==
    /\ mode = "manager" /\ pc = "pass1"
    /\ LET table == tables[idx]
           manager == generate_manager(table)
       IN  /\ manager_map' = Put(manager_map, table,
                                 IF IsNone(manager) THEN None ELSE Some(to_magql(manager[1])))
           /\ warnings' = IF IsNone(manager) THEN warnings \cup {table} ELSE warnings
    /\ LoopNext("pass2")
    /\ UNCHANGED <<Inputs, Graph, Filtering, table_types, query_fields, mutation_fields, error, rewired>>

\* second loop: one iteration, for the manager of tables[idx]
AddRels ==
    /\ mode = "manager" /\ pc = "pass2"
    /\ LET key == tables[idx] IN
       IF IsNone(manager_map[key])
       THEN /\ LoopNext("check_delete")
            /\ UNCHANGED <<manager_map, error>>
       ELSE \E rels \in Orders(RelsOf(key)) :
              LET res == add_rels(manager_map[key][1], manager_map, rels) IN
              /\ manager_map' = [manager_map EXCEPT ![key] = Some(res.manager)]
              /\ error' = res.error
              /\ IF res.error = "none"
                 THEN LoopNext("check_delete")
                 ELSE pc' = "failed" /\ idx' = idx
    /\ UNCHANGED <<Inputs, Graph, Filtering, table_types, query_fields, mutation_fields, warnings, rewired>>

GenerateCheckDelete ==
    /\ mode = "manager" /\ pc = "check_delete"
    /\ manager_map' = Put(manager_map, "checkDelete",
                          Some(check_delete_manager(manager_map, Range(tables))))
    /\ pc' = "pagination"
    /\ UNCHANGED <<Inputs, Graph, Filtering, idx, table_types, query_fields, mutation_fields, error,
                   warnings, rewired>>

GeneratePagination ==
    /\ mode = "manager" /\ pc = "pagination"
    /\ manager_map' = Put(manager_map, "PaginationManager", Some(page_manager))
    /\ pc' = "done"
    /\ UNCHANGED <<Inputs, Graph, Filtering, idx, table_types, query_fields, mutation_fields, error,
                   warnings, rewired>>

\* add_rels is public: the host may call it again on a manager of the
\* finished collection
AddRelsAgain ==
    /\ mode = "manager" /\ pc = "done" /\ ~rewired
    /\ \E key \in Range(tables) :
          /\ ~IsNone(manager_map[key])
          /\ \E rels \in Orders(RelsOf(key)) :
                LET res == add_rels(manager_map[key][1], manager_map, rels) IN
                /\ manager_map' = [manager_map EXCEPT ![key] = Some(res.manager)]
                /\ error' = res.error
    /\ rewired' = TRUE
    /\ UNCHANGED <<Inputs, Graph, Filtering, pc, idx, table_types, query_fields, mutation_fields, warnings>>

---------------------------------------------------------------------------
(* MagqlSchema.__init__ *)

\* first loop: one iteration, for tables[idx]
BuildColumns ==
    /\ mode = "schema" /\ pc = "pass1"
    /\ LET table == tables[idx] IN
       IF table \in unmapped
       THEN /\ warnings' = warnings \cup {table}
            /\ UNCHANGED <<table_types, query_fields, mutation_fields>>
       ELSE /\ table_types' = Put(table_types, table, generate_column_object_types(table, table))
            /\ mutation_fields' = MergeDicts(mutation_fields, generate_mutations(table, table))
            /\ query_fields' = MergeDicts(query_fields, generate_column_queries(table, table))
            /\ UNCHANGED warnings
    /\ LoopNext("pass2")
    /\ UNCHANGED <<Inputs, Graph, Filtering, manager_map, error, rewired>>

\* second loop: one iteration, for tables[idx]
WireRelationships ==
    /\ mode = "schema" /\ pc = "pass2"
    /\ LET table == tables[idx] IN
       IF table \in unmapped
       THEN /\ warnings' = warnings \cup {table}
            /\ LoopNext("assemble")
            /\ UNCHANGED <<table_types, error>>
       ELSE \E rels \in Orders(RelsOf(table)) :
              LET res == schema_rels_loop(table_types, rels, 1) IN
              /\ table_types' = res.types
              /\ error' = res.error
              /\ IF res.error = "none"
                 THEN LoopNext("assemble")
                 ELSE pc' = "failed" /\ idx' = idx
              /\ UNCHANGED warnings
    /\ UNCHANGED <<Inputs, Graph, Filtering, manager_map, query_fields, mutation_fields, rewired>>

\* GraphQLSchema(query, mutation)
Assemble ==
    /\ mode = "schema" /\ pc = "assemble"
    /\ pc' = "done"
    /\ UNCHANGED <<Inputs, Graph, Filtering, idx, manager_map, table_types, query_fields, mutation_fields,
                   error, warnings, rewired>>

Next ==
    \/ BuildManager
    \/ AddRels
    \/ GenerateCheckDelete
    \/ GeneratePagination
    \/ AddRelsAgain
    \/ BuildColumns
    \/ WireRelationships
    \/ Assemble

Spec == Init /\ [][Next]_vars

---------------------------------------------------------------------------
(* Vocabulary of the properties *)

MappedTables == Range(tables) \ unmapped
Pos(t) == CHOOSE i \in 1..Len(tables) : tables[i] = t

\* the second pass has run for every table of the batch
WiringComplete == pc \in {"check_delete", "pagination", "done", "assemble"}
\* the second pass has run to its end for table t
WiredTable(t) == WiringComplete \/ (pc \in {"pass2", "failed"} /\ Pos(t) < idx)

TableManager(t) == manager_map[t][1]

\* the four nodes that relationship wiring extends
WiredNodes == {"Object", "Input", "InputRequired", "Filter"}
NodeOf(t, which) ==
    IF mode = "manager"
    THEN TableManager(t).magql_types[
             camelize(t) \o (IF which = "Object" THEN "" ELSE which)]
    ELSE CASE which = "Object" -> table_types[t].object
           [] which = "Input" -> table_types[t].input
           [] which = "InputRequired" -> table_types[t].required_input
           [] which = "Filter" -> table_types[t].filter

\* the camel-cased names of the column fields the column pass puts on a node
ColumnFieldNames(t, which) ==
    LET cols == Columns(t)
    IN  {js_camelize(cols[i].name) :
            i \in {j \in 1..Len(cols) :
                     /\ ~cols[j].foreign_keys
                     /\ (which \in {"Input", "InputRequired"} /\ mode = "manager")
                            => ~cols[j].primary_key}}

\* add_rels skips a relationship whose target has the entry None in the map
Skipped(r) == mode = "manager" /\ r.target \in Range(tables) \cap unmapped

\* add_rels keeps a field that the node already has under the relationship's name
Kept(r, which) == mode = "manager" /\ js_camelize(r.name) \in ColumnFieldNames(r.src, which)

\* the reference to the Object type of a relationship's target
TargetRef(r) ==
    IF mode = "manager" THEN Named(camelize(r.target)) ELSE Obj(camelize(r.target))

\* the column pass has run for table t
Built(t) ==
    IF mode = "manager"
    THEN /\ t \in DOMAIN manager_map
         /\ ~IsNone(manager_map[t])
         /\ {camelize(t), camelize(t) \o "Input", camelize(t) \o "InputRequired",
             camelize(t) \o "Filter", camelize(t) \o "Sort"} \subseteq DOMAIN TableManager(t).magql_types
         /\ {"create" \o camelize(t), "update" \o camelize(t), "delete" \o camelize(t)}
                \subseteq DOMAIN TableManager(t).mutation
         /\ many_query_name(t) \in DOMAIN TableManager(t).query
    ELSE /\ t \in DOMAIN table_types
         /\ {"create" \o t, "update" \o t, "delete" \o t} \subseteq DOMAIN mutation_fields
         /\ js_camelize(pluralize(t)) \in DOMAIN query_fields

\* relationship wiring has left a trace on table t: a field resolved by
\* Resolver() on its Object node, or its Payload entry
WiringBegun(t) ==
    IF mode = "manager"
    THEN /\ t \in DOMAIN manager_map
         /\ ~IsNone(manager_map[t])
         /\ \/ (camelize(t) \o "Payload") \in DOMAIN TableManager(t).magql_types
            \/ \E f \in DOMAIN NodeOf(t, "Object").fields :
                  NodeOf(t, "Object").fields[f].resolve = "Resolver"
    ELSE /\ t \in DOMAIN table_types
         /\ \E f \in DOMAIN table_types[t].object.fields :
               table_types[t].object.fields[f].resolve = "Resolver"

---------------------------------------------------------------------------
(* C1: two passes.  Whenever relationship wiring is about to run or has run  *)
(* for any table of the batch, the column-only types and the operation     *)
(* fields of every table of the batch that has a mapper are built.         *)

C1_TwoPass ==
    (pc # "pass1" \/ \E t \in Range(tables) : WiringBegun(t))
        => \A t \in MappedTables : Built(t)

\* two tables that reference each other, the first one already wired
C1_Witness ==
    /\ pc = "pass2" /\ idx = 2 /\ Len(tables) = 2
    /\ WiringBegun(tables[1])
    /\ \E r1, r2 \in relationships :
          /\ r1.src = tables[1] /\ r1.target = tables[2]
          /\ r2.src = tables[2] /\ r2.target = tables[1]

---------------------------------------------------------------------------
(* C2: every type name referred to by string resolves.  After the          *)
(* collection is built, every name that a field or an argument of a        *)
(* manager's query fields, mutation fields or registered types refers to   *)
(* by string is a built-in scalar or a key of some manager's registry.     *)

BuiltinScalars == {"String", "Int", "Float", "Boolean", "ID"}

Managers == {manager_map[k][1] : k \in {j \in DOMAIN manager_map : ~IsNone(manager_map[j])}}

RegistryKeys == UNION {DOMAIN m.magql_types : m \in Managers}

\* the types a map of fields refers to: field types and argument types
TypesOfFields(fs) ==
    {fs[f].type : f \in DOMAIN fs}
        \cup UNION {{fs[f].args[a] : a \in DOMAIN fs[f].args} : f \in DOMAIN fs}

TypesOfManager(m) ==
    TypesOfFields(m.query) \cup TypesOfFields(m.mutation)
        \cup UNION {TypesOfFields(m.magql_types[n].fields) : n \in DOMAIN m.magql_types}

StringRefs == {Innermost(t).name : t \in {u \in UNION {TypesOfManager(m) : m \in Managers} :
                                             Innermost(u).kind = "Name"}}

C2_AllNamesResolve ==
    (mode = "manager" /\ pc = "done") => StringRefs \subseteq BuiltinScalars \cup RegistryKeys

---------------------------------------------------------------------------
(* C3: the Object field of a to-many relationship.  As claimed: after the  *)
(* wiring of A, for every to-many relationship A -> B the field of A's     *)
(* Object node under the relationship's name has type List(B), without     *)
(* NonNull at any level.                                                   *)

C3_ToManyIsList ==
    \A t \in MappedTables : WiredTable(t) =>
        \A r \in RelsOf(t) : IsToMany(r.direction) =>
            /\ js_camelize(r.name) \in DOMAIN NodeOf(t, "Object").fields
            /\ NodeOf(t, "Object").fields[js_camelize(r.name)].type = MagqlList(TargetRef(r))

(* C3, amended: the same, except that add_rels adds no field for a         *)
(* relationship whose target has the entry None in the manager map, and    *)
(* keeps the column field when the node already has a field of that name.  *)

C3_ToManyIsListUnlessKept ==
    \A t \in MappedTables : WiredTable(t) =>
        \A r \in RelsOf(t) : (IsToMany(r.direction) /\ ~Skipped(r) /\ ~Kept(r, "Object")) =>
            /\ js_camelize(r.name) \in DOMAIN NodeOf(t, "Object").fields
            /\ NodeOf(t, "Object").fields[js_camelize(r.name)].type = MagqlList(TargetRef(r))
            /\ ~HasNonNull(NodeOf(t, "Object").fields[js_camelize(r.name)].type)

\* a to-many relationship over a non-nullable foreign key, wired by add_rels
C3_Witness ==
    /\ mode = "manager" /\ pc = "done"
    /\ \E r \in relationships :
          /\ r.direction = "ONETOMANY" /\ ~r.nullable /\ r.src = "customer"
          /\ r.target = "order" /\ "order" \in Range(tables)
          /\ NodeOf("customer", "Object").fields["lineItems"].type = MagqlList(Named("Order"))

---------------------------------------------------------------------------
(* C4: nullability of the relationship input fields.  For every field that *)
(* wiring adds for a relationship A -> B: if the relationship is to-one    *)
(* and required, the InputRequired field is NonNull-wrapped and the Input  *)
(* field has no NonNull; if it is to-many, neither has a NonNull.          *)

\* wiring has added the field of relationship r on node which
Added(r, which) == WiredTable(r.src) /\ ~Skipped(r) /\ ~Kept(r, which)

FieldTypeOf(r, which) == NodeOf(r.src, which).fields[js_camelize(r.name)].type

C4_RequiredInputNonNull ==
    \A r \in relationships :
        /\ (Added(r, "InputRequired") /\ ~IsToMany(r.direction) /\ is_rel_required(r))
              => FieldTypeOf(r, "InputRequired").kind = "NonNull"
        /\ (Added(r, "Input") /\ ~IsToMany(r.direction) /\ is_rel_required(r))
              => ~HasNonNull(FieldTypeOf(r, "Input"))
        /\ (Added(r, "InputRequired") /\ IsToMany(r.direction))
              => ~HasNonNull(FieldTypeOf(r, "InputRequired"))
        /\ (Added(r, "Input") /\ IsToMany(r.direction))
              => ~HasNonNull(FieldTypeOf(r, "Input"))

\* a required to-one relationship and a to-many one, both wired
C4_Witness ==
    /\ WiringComplete
    /\ \E r \in relationships :
          /\ ~IsToMany(r.direction) /\ is_rel_required(r)
          /\ Added(r, "InputRequired") /\ Added(r, "Input")
          /\ FieldTypeOf(r, "InputRequired").kind = "NonNull"
    /\ \E r \in relationships :
          /\ IsToMany(r.direction) /\ is_rel_required(r)
          /\ Added(r, "InputRequired") /\ Added(r, "Input")

---------------------------------------------------------------------------
(* C5: the scenario Order -> Customer over a non-nullable foreign key.     *)
(* As claimed: OrderInputRequired.customer has type ID! and                *)
(* OrderInput.customer has type ID.                                        *)

OrderCustomerScenario ==
    /\ "order" \in MappedTables /\ WiredTable("order")
    /\ \E r \in relationships :
          /\ r.src = "order" /\ r.name = "customer" /\ r.target = "customer"
          /\ r.direction = "MANYTOONE" /\ ~r.nullable /\ ~Skipped(r)

IdRef == IF mode = "manager" THEN Named("ID") ELSE GraphQLID

C5_OrderCustomerIsID ==
    OrderCustomerScenario =>
        /\ NodeOf("order", "InputRequired").fields["customer"].type = MagqlNonNull(IdRef)
        /\ NodeOf("order", "Input").fields["customer"].type = IdRef

(* C5, amended: MagqlSchema gives the two fields the types ID! and ID;     *)
(* add_rels gives them the scalar mapped from Customer's primary key       *)
(* (Int for the integer key): Int! and Int.                                *)

C5_OrderCustomerIsKeyScalar ==
    OrderCustomerScenario =>
        IF mode = "manager"
        THEN /\ NodeOf("order", "InputRequired").fields["customer"].type = MagqlNonNull(Named("Int"))
             /\ NodeOf("order", "Input").fields["customer"].type = Named("Int")
        ELSE /\ NodeOf("order", "InputRequired").fields["customer"].type = MagqlNonNull(GraphQLID)
             /\ NodeOf("order", "Input").fields["customer"].type = GraphQLID

C5_Witness ==
    /\ OrderCustomerScenario /\ mode = "manager" /\ pc = "done"
    /\ NodeOf("order", "InputRequired").fields["customer"].type = MagqlNonNull(Named("Int"))

---------------------------------------------------------------------------
(* C6: the scalar of a relationship's input fields in add_rels.  The named *)
(* scalar of the Input and InputRequired fields that add_rels adds is the  *)
(* target's primary-key python type mapped str -> String, int -> Int,      *)
(* bool -> Boolean, float -> Float.  When the key has another type,        *)
(* add_rels raises: the wiring of that table never completes, the          *)
(* collection is never finished, and none of the table's four nodes gets   *)
(* a field for that relationship.                                          *)

KeyScalar == [str |-> "String", int |-> "Int", bool |-> "Boolean", float |-> "Float"]

\* a relationship add_rels reaches whose target key has no scalar
BadKey(r) ==
    /\ mode = "manager" /\ r.src \in MappedTables /\ ~Skipped(r)
    /\ PrimaryKeyPythonType(r.target) \notin DOMAIN KeyScalar

C6_KeyScalarOrError ==
    /\ input_field_types = KeyScalar
    /\ \A r \in relationships : \A which \in {"Input", "InputRequired"} :
          (mode = "manager" /\ Added(r, which)) =>
              /\ PrimaryKeyPythonType(r.target) \in DOMAIN KeyScalar
              /\ Innermost(FieldTypeOf(r, which)).kind = "Name"
              /\ Innermost(FieldTypeOf(r, which)).name = KeyScalar[PrimaryKeyPythonType(r.target)]
    /\ \A r \in relationships : BadKey(r) =>
          /\ ~WiredTable(r.src)
          /\ pc \notin {"check_delete", "pagination", "done"}
          /\ (pc = "failed" /\ tables[idx] = r.src) => error = "KeyError"
          /\ Built(r.src) =>
                \A which \in WiredNodes :
                    js_camelize(r.name) \in DOMAIN NodeOf(r.src, which).fields => Kept(r, which)
    /\ (mode = "manager" /\ pc = "failed") => \E r \in RelsOf(tables[idx]) : BadKey(r)

\* add_rels has raised on a relationship to the table keyed by a uuid, after
\* wiring another relationship of the same table
C6_Witness ==
    /\ mode = "manager" /\ pc = "failed" /\ error = "KeyError"
    /\ \E r \in RelsOf(tables[idx]) : BadKey(r)
    /\ \E r \in RelsOf(tables[idx]) :
          /\ ~BadKey(r) /\ ~Skipped(r) /\ ~Kept(r, "Input")
          /\ js_camelize(r.name) \in DOMAIN NodeOf(r.src, "Input").fields

---------------------------------------------------------------------------
(* C7: add_rels never overwrites.  A step of the collection leaves every   *)
(* field that one of the four nodes of a manager already has exactly as it *)
(* is, and a second add_rels on a manager of the finished collection       *)
(* leaves the four field maps as the first one left them.                  *)

FourFieldMaps(t) == [which \in WiredNodes |-> NodeOf(t, which).fields]

C7_NeverOverwrites ==
    [][mode = "manager" =>
        \A t \in Range(tables) \cap DOMAIN manager_map :
            ~IsNone(manager_map[t]) =>
                /\ \A which \in WiredNodes :
                      \A f \in DOMAIN FourFieldMaps(t)[which] :
                          /\ f \in DOMAIN FourFieldMaps(t)'[which]
                          /\ FourFieldMaps(t)'[which][f] = FourFieldMaps(t)[which][f]
                /\ pc = "done" => FourFieldMaps(t)' = FourFieldMaps(t)]_vars

\* add_rels has run twice on a manager whose table has a column named like
\* one of its relationships
C7_Witness ==
    /\ mode = "manager" /\ pc = "done" /\ rewired
    /\ \E r \in relationships :
          /\ ~Skipped(r) /\ Kept(r, "Object") /\ Kept(r, "Input")
          /\ NodeOf(r.src, "Object").fields[js_camelize(r.name)].resolve = "CamelResolver"

---------------------------------------------------------------------------
(* C8: the payload types.  After the wiring of E the registry of E's       *)
(* manager holds, NonNull-wrapped, E+"Payload" with exactly the fields     *)
(* errors: [String] and result: E, and E+"ListPayload" with exactly        *)
(* errors: [String], result: [E] and count: Int; create, update, delete    *)
(* and single return E+"Payload", many returns E+"ListPayload", and every  *)
(* root field of the manager returns one of the two.                       *)

C8_Payloads ==
    mode = "manager" =>
        \A t \in MappedTables : WiredTable(t) =>
            LET m == TableManager(t)
                E == m.magql_name
                payload == m.magql_types[E \o "Payload"]
                list_payload == m.magql_types[E \o "ListPayload"]
            IN  /\ {E \o "Payload", E \o "ListPayload"} \subseteq DOMAIN m.magql_types
                /\ payload.nonnull /\ payload.kind = "Object" /\ payload.name = E \o "Payload"
                /\ DOMAIN payload.fields = {"errors", "result"}
                /\ payload.fields["errors"].type = MagqlList(Named("String"))
                /\ payload.fields["result"].type = Named(E)
                /\ list_payload.nonnull /\ list_payload.kind = "Object"
                /\ list_payload.name = E \o "ListPayload"
                /\ DOMAIN list_payload.fields = {"errors", "result", "count"}
                /\ list_payload.fields["errors"].type = MagqlList(Named("String"))
                /\ list_payload.fields["result"].type = MagqlList(Named(E))
                /\ list_payload.fields["count"].type = Named("Int")
                /\ \A op \in {m.create, m.update, m.delete, m.single} :
                      op.type = Named(E \o "Payload")
                /\ m.many.type = Named(E \o "ListPayload")
                /\ \A f \in DOMAIN m.mutation : m.mutation[f].type = Named(E \o "Payload")
                /\ \A f \in DOMAIN m.query :
                      m.query[f].type \in {Named(E \o "Payload"), Named(E \o "ListPayload")}

C8_Witness ==
    /\ mode = "manager" /\ pc = "done" /\ tables = <<"order", "customer">> /\ unmapped = {}
    /\ TableManager("order").magql_types["OrderListPayload"].fields["result"].type
           = MagqlList(Named("Order"))
    /\ TableManager("customer").query["customers"].type = Named("CustomerListPayload")

---------------------------------------------------------------------------
(* C9: the root fields of one entity.  As claimed: after to_magql the      *)
(* Mutation root of E's manager has exactly create<E>, update<E> and       *)
(* delete<E> with their arguments, and its Query root has exactly two      *)
(* fields, the single query and the many query.                            *)

C9_RootFields ==
    mode = "manager" =>
        \A t \in MappedTables \cap DOMAIN manager_map :
            LET m == TableManager(t)
                E == camelize(t)
                id == MagqlNonNull(Named("ID"))
            IN  /\ DOMAIN m.mutation = {"create" \o E, "update" \o E, "delete" \o E}
                /\ m.mutation["create" \o E].args = [input |-> MagqlNonNull(Named(E \o "InputRequired"))]
                /\ m.mutation["update" \o E].args =
                       [id |-> id, input |-> MagqlNonNull(Named(E \o "Input"))]
                /\ m.mutation["delete" \o E].args = [id |-> id]
                /\ DOMAIN m.query = {js_camelize(t), js_camelize(pluralize(t))}
                /\ Cardinality(DOMAIN m.query) = 2
                /\ m.query[js_camelize(t)] = m.single
                /\ m.query[js_camelize(t)].args = [id |-> id]
                /\ m.query[js_camelize(pluralize(t))] = m.many
                /\ m.query[js_camelize(pluralize(t))].args =
                       [filter |-> Named(E \o "Filter"),
                        sort |-> MagqlList(MagqlNonNull(Named(E \o "Sort"))),
                        page |-> Named("Page")]

---------------------------------------------------------------------------
(* C10: root field name collisions.  As claimed: when two generated        *)
(* operation fields receive the same root field name, the build fails; it  *)
(* never finishes with one of the two fields dropped.                      *)

\* the root field names generated for table t
QueryFieldName(t, op) ==
    IF op = "single" THEN js_camelize(t) ELSE js_camelize(pluralize(t))

\* two query fields that land in the same root object under one name
QueryNameCollision ==
    \E t1, t2 \in MappedTables : \E op1, op2 \in {"single", "many"} :
        /\ <<t1, op1>> # <<t2, op2>>
        /\ QueryFieldName(t1, op1) = QueryFieldName(t2, op2)
        /\ mode = "manager" => t1 = t2

C10_CollisionFails == QueryNameCollision => pc # "done"

---------------------------------------------------------------------------
(* C11: a table without a mapped model, in MagqlTableManagerCollection.    *)
(* Such a table does not abort the build: its entry in the manager map is  *)
(* None and a warning is emitted for it; a failure of the build is never   *)
(* on that table nor on a relationship to it; every other table processed  *)
(* has the operation fields and column types a build without it gives; and *)
(* no root field, registry key, checkDelete union member or field type of  *)
(* any manager refers to it.                                               *)

\* the type names the builder derives from table t
TypeNamesOf(t) ==
    {camelize(t) \o suffix :
        suffix \in {"", "Input", "InputRequired", "Filter", "Sort", "Payload", "ListPayload"}}

\* the root field names the builder derives from table t
RootNamesOf(t) ==
    {single_query_name(t), many_query_name(t), create_mutation_name(camelize(t)),
     update_mutation_name(camelize(t)), delete_mutation_name(camelize(t))}

C11_UnmappedTableIsAbsent ==
    mode = "manager" =>
        \A t \in Range(tables) \cap unmapped :
            /\ t \in DOMAIN manager_map => IsNone(manager_map[t]) /\ t \in warnings
            /\ pc = "failed" =>
                  /\ tables[idx] # t
                  /\ \E r \in RelsOf(tables[idx]) : BadKey(r) /\ r.target # t
            /\ \A u \in MappedTables \cap DOMAIN manager_map :
                  /\ TableManager(u).query = to_magql(MagqlTableManager(u)).query
                  /\ TableManager(u).mutation = to_magql(MagqlTableManager(u)).mutation
                  /\ \A n \in DOMAIN generate_types(camelize(u), u) :
                        /\ n \in DOMAIN TableManager(u).magql_types
                        /\ \A f \in DOMAIN generate_types(camelize(u), u)[n].fields :
                              TableManager(u).magql_types[n].fields[f]
                                  = generate_types(camelize(u), u)[n].fields[f]
            /\ \A m \in Managers :
                  /\ (DOMAIN m.query \cup DOMAIN m.mutation) \cap RootNamesOf(t) = {}
                  /\ DOMAIN m.magql_types \cap TypeNamesOf(t) = {}
                  /\ \A ref \in TypesOfManager(m) : Innermost(ref).name \notin TypeNamesOf(t)
                  /\ "SQLAlchemyTableUnion" \in DOMAIN m.magql_types =>
                        camelize(t) \notin m.magql_types["SQLAlchemyTableUnion"].values

\* a finished collection of an unmapped customer and an order whose mapper
\* has a relationship to it
C11_Witness ==
    /\ mode = "manager" /\ pc = "done" /\ tables = <<"customer", "order">>
    /\ unmapped = {"customer"} /\ warnings = {"customer"}
    /\ \E r \in relationships : r.src = "order" /\ r.target = "customer"
    /\ manager_map["checkDelete"][1].magql_types["SQLAlchemyTableUnion"].values = {"Order"}

---------------------------------------------------------------------------
(* C20: the Sort enum.  Once the column pass has run for entity E with N   *)
(* columns that are not foreign keys, and at every later point of the      *)
(* build, E's Sort enum has exactly 2N values: <field>_asc and             *)
(* <field>_desc for the camel-cased name of each such column and nothing   *)
(* else; relationship wiring adds none.                                    *)

SortOf(t) ==
    IF mode = "manager" THEN TableManager(t).magql_types[camelize(t) \o "Sort"]
    ELSE table_types[t].sort

\* the columns of t that are not foreign keys
NonForeignKeyColumns(t) == {i \in 1..Len(Columns(t)) : ~Columns(t)[i].foreign_keys}

C20_SortEnum ==
    \A t \in MappedTables : Built(t) =>
        /\ SortOf(t).kind = "Enum"
        /\ Cardinality(SortOf(t).values) = 2 * Cardinality(NonForeignKeyColumns(t))
        /\ SortOf(t).values =
               UNION {{js_camelize(Columns(t)[i].name) \o "_asc",
                       js_camelize(Columns(t)[i].name) \o "_desc"} :
                          i \in NonForeignKeyColumns(t)}

\* the order table, with a foreign-key column and two relationships wired
C20_Witness ==
    /\ pc = "done" /\ "order" \in MappedTables /\ Built("order")
    /\ Cardinality(RelsOf("order")) = 2
    /\ \A r \in RelsOf("order") : ~Skipped(r)
    /\ SortOf("order").values = {"id_asc", "id_desc", "lineItems_asc", "lineItems_desc"}

---------------------------------------------------------------------------
(* The assembled schema as an object graph (convert.py)                    *)
(*                                                                         *)
(* merge_schema rewrites field objects in place and creates new type       *)
(* objects, so the types and fields it works on are objects with identity: *)
(* `objects` maps the id of a type object to its name, kind and fields,    *)
(* and `field_objects` maps the id of a field object to its type,          *)
(* arguments and resolver.  A fields dict is ordered: a sequence of        *)
(* [name, field] entries, field being the id of the field object.          *)

\* deepest stack of List / NonNull wrappers on a return type of the
\* schema handed to merge_schema
MaxWrap == 3

\* python dicts, in insertion order
DictKeys(d) == [i \in 1..Len(d) |-> d[i].name]
DictHas(d, k) == \E i \in 1..Len(d) : d[i].name = k
DictGet(d, k) == d[CHOOSE i \in 1..Len(d) : d[i].name = k].field
\* d[k] = v: an existing key keeps its position
DictPut(d, k, v) ==
    IF DictHas(d, k)
    THEN [i \in 1..Len(d) |-> IF d[i].name = k THEN [name |-> k, field |-> v] ELSE d[i]]
    ELSE Append(d, [name |-> k, field |-> v])
\* {**d1, **d2}
RECURSIVE DictMerge(_, _)
DictMerge(d1, d2) ==
    IF d2 = <<>> THEN d1
    ELSE DictMerge(DictPut(d1, Head(d2).name, Head(d2).field), Tail(d2))

\* a reference to the type object with the given id
TypeRef(id) == Obj(id)

\* field.type and get_object_type(field.type): the named type under the
\* wrappers
get_object_type(type) == Innermost(type)

\* The description of one type object to be created: its id, its name, its
\* kind, and its fields in order
TypeDesc(id, name, kind, fields) == [id |-> id, name |-> name, kind |-> kind, fields |-> fields]
FieldDesc(name, type, args, resolve) ==
    [name |-> name, type |-> type, args |-> args, resolve |-> resolve]

FieldId(type_id, field_name) == type_id \o "." \o field_name

\* the type objects and the field objects a sequence of descriptions stands for
RECURSIVE ObjectsOf(_)
ObjectsOf(descs) ==
    IF descs = <<>> THEN <<>>
    ELSE LET d == Head(descs)
         IN  (d.id :> [name |-> d.name, kind |-> d.kind,
                       fields |-> [j \in 1..Len(d.fields) |->
                                      [name |-> d.fields[j].name,
                                       field |-> FieldId(d.id, d.fields[j].name)]]])
                 @@ ObjectsOf(Tail(descs))

RECURSIVE FieldObjectsOfType(_, _)
FieldObjectsOfType(id, fields) ==
    IF fields = <<>> THEN <<>>
    ELSE (FieldId(id, Head(fields).name) :>
              MagqlField(Head(fields).type, Head(fields).args, Head(fields).resolve))
             @@ FieldObjectsOfType(id, Tail(fields))

RECURSIVE FieldObjectsOf(_)
FieldObjectsOf(descs) ==
    IF descs = <<>> THEN <<>>
    ELSE FieldObjectsOfType(Head(descs).id, Head(descs).fields) @@ FieldObjectsOf(Tail(descs))

\* the built-in scalar type objects, shared by every schema; a scalar has no
\* fields attribute
ScalarTypes ==
    << TypeDesc("String", "String", "Scalar", <<>>),
       TypeDesc("Int", "Int", "Scalar", <<>>),
       TypeDesc("ID", "ID", "Scalar", <<>>) >>

---------------------------------------------------------------------------
(* self.schema as MagqlSchema.__init__ assembles it from a batch           *)

\* the first loop of MagqlSchema.__init__ run over tables 1..i of a batch
\* in which every table has a mapper
RECURSIVE column_pass(_, _)
column_pass(tbls, i) ==
    IF i = 0
    THEN [table_types |-> <<>>, query_fields |-> <<>>, mutation_fields |-> <<>>]
    ELSE LET acc == column_pass(tbls, i - 1)
             table == tbls[i]
         IN  [table_types |->
                  Put(acc.table_types, table, generate_column_object_types(table, table)),
              mutation_fields |->
                  MergeDicts(acc.mutation_fields, generate_mutations(table, table)),
              query_fields |->
                  MergeDicts(acc.query_fields, generate_column_queries(table, table))]

\* the relationships of one table, in the order of the mapper's dict
RelSeq(rels, table) ==
    LET own == {r \in rels : r.src = table}
    IN  CHOOSE q \in Orders(own) : TRUE

\* the second loop run over tables 1..i, every target having its types
RECURSIVE wiring_pass(_, _, _, _)
wiring_pass(types, tbls, rels, i) ==
    IF i = 0 THEN types
    ELSE schema_rels_loop(wiring_pass(types, tbls, rels, i - 1),
                          RelSeq(rels, tbls[i]), 1).types

\* a reference by type name made a reference to the type object of schema
\* `owner`; the built-in scalars are shared
TypeId(owner, name) == IF name \in BuiltinScalars THEN name ELSE owner \o "." \o name

RECURSIVE Relocate(_, _)
Relocate(owner, type) ==
    IF IsWrapper(type)
    THEN [type EXCEPT !.of = <<Relocate(owner, type.of[1])>>]
    ELSE TypeRef(TypeId(owner, type.name))

\* GraphQLObjectType accepts a bare type for a field and makes a field of it
AsField(v) == IF "resolve" \in DOMAIN v THEN v ELSE MagqlField(v, NoArgs, "none")

\* the entries of a dict built by assignments in the order `order`
FieldsInOrder(owner, order, fs) ==
    [i \in 1..Len(order) |->
        FieldDesc(order[i], Relocate(owner, AsField(fs[order[i]]).type),
                  AsField(fs[order[i]]).args, AsField(fs[order[i]]).resolve)]

RECURSIVE Flatten(_)
Flatten(seqs) == IF seqs = <<>> THEN <<>> ELSE Head(seqs) \o Flatten(Tail(seqs))

\* the field names of a table's object type in insertion order: the
\* columns that are not foreign keys, then the relationships
ColumnOrder(table) ==
    LET cols == SelectSeq(Columns(table), LAMBDA c : ~c.foreign_keys)
    IN  [i \in 1..Len(cols) |-> js_camelize(cols[i].name)]

ObjectFieldOrder(rels, table) ==
    LET wired == RelSeq(rels, table)
        names == [i \in 1..Len(wired) |-> js_camelize(wired[i].name)]
    IN  ColumnOrder(table)
            \o SelectSeq(names, LAMBDA n : \A i \in 1..Len(ColumnOrder(table)) :
                                               ColumnOrder(table)[i] # n)

\* query = GraphQLObjectType("Query", query_fields), mutation likewise, and
\* the object and payload types they reach, for a batch tbls with the
\* relationships rels
AssembledTypes(owner, tbls, rels) ==
    LET built == column_pass(tbls, Len(tbls))
        types == wiring_pass(built.table_types, tbls, rels, Len(tbls))
        per_table == [i \in 1..Len(tbls) |->
            LET t == tbls[i] IN
            << TypeDesc(TypeId(owner, types[t].object.name), types[t].object.name, "Object",
                        FieldsInOrder(owner, ObjectFieldOrder(rels, t), types[t].object.fields)),
               TypeDesc(TypeId(owner, types[t].payload.name), types[t].payload.name, "Object",
                        FieldsInOrder(owner, <<"error", t>>, types[t].payload.fields)) >>]
        query_order == Flatten([i \in 1..Len(tbls) |->
            <<js_camelize(tbls[i]), js_camelize(pluralize(tbls[i]))>>])
        mutation_order == Flatten([i \in 1..Len(tbls) |->
            <<"create" \o js_camelize(tbls[i]), "update" \o js_camelize(tbls[i]),
              "delete" \o js_camelize(tbls[i])>>])
    IN  << TypeDesc(TypeId(owner, "Query"), "Query", "Object",
                    FieldsInOrder(owner, query_order, built.query_fields)),
           TypeDesc(TypeId(owner, "Mutation"), "Mutation", "Object",
                    FieldsInOrder(owner, mutation_order, built.mutation_fields)) >>
        \o Flatten(per_table)

---------------------------------------------------------------------------
(* The schema handed to merge_schema: any GraphQLSchema of the host        *)

\* stacks of wrappers, outermost first; NonNull never wraps NonNull
Stacks ==
    UNION {{w \in [1..n -> {"List", "NonNull"}] :
                \A i \in 1..n - 1 : ~(w[i] = "NonNull" /\ w[i + 1] = "NonNull")} :
              n \in 0..MaxWrap}

RECURSIVE Wrap(_, _)
Wrap(stack, type) ==
    IF stack = <<>> THEN type
    ELSE IF Head(stack) = "List" THEN MagqlList(Wrap(Tail(stack), type))
    ELSE MagqlNonNull(Wrap(Tail(stack), type))

\* the wrappers of a type, outermost first
RECURSIVE StackOf(_)
StackOf(type) == IF IsWrapper(type) THEN <<type.kind>> \o StackOf(type.of[1]) ELSE <<>>

\* The host's schemas: a Customer type with fields of its own; a query type
\* named Query or otherwise, with an optional field vip returning a wrapped
\* Customer, Team or String and an optional field customer; an optional
\* mutation type with the field promote.  Team reaches Customer directly
\* and through Member, which no root field returns.
CustomerVariants ==
    { << FieldDesc("age", TypeRef("Int"), NoArgs, "none") >>,
      << FieldDesc("age", TypeRef("Int"), NoArgs, "none"),
         FieldDesc("email", TypeRef("String"), NoArgs, "none") >>,
      << FieldDesc("name", TypeRef("String"), NoArgs, "none"),
         FieldDesc("age", TypeRef("Int"), NoArgs, "none") >> }

ExistingShapes ==
    [empty : {FALSE}, query_name : {"Query", "RootQuery"}, customer : CustomerVariants,
     vip : {None} \cup {Some([stack |-> w, target |-> t]) :
                           w \in Stacks, t \in {"Customer", "Team", "String"}},
     same_name : BOOLEAN, mutation : BOOLEAN]
        \cup [empty : {TRUE}, query_name : {"Query"}, customer : {<<>>}, vip : {None},
              same_name : {FALSE}, mutation : {FALSE}]

ExistingTypes(shape) ==
    IF shape.empty THEN <<>>
    ELSE LET stack == IF IsNone(shape.vip) THEN <<>> ELSE shape.vip[1].stack
             customer == TypeRef("S2.Customer")
         IN  << TypeDesc("S2.Query", shape.query_name, "Object",
                    (IF IsNone(shape.vip) THEN <<>>
                     ELSE << FieldDesc("vip",
                                 Wrap(stack, TypeRef(TypeId("S2", shape.vip[1].target))),
                                 NoArgs, "VipResolver") >>)
                    \o (IF shape.same_name
                        THEN << FieldDesc("customer", customer, NoArgs, "HostResolver") >>
                        ELSE <<>>)),
                TypeDesc("S2.Customer", "Customer", "Object", shape.customer),
                TypeDesc("S2.Team", "Team", "Object",
                    << FieldDesc("name", TypeRef("String"), NoArgs, "none"),
                       FieldDesc("owners", Wrap(stack, customer), NoArgs, "none"),
                       FieldDesc("members", MagqlList(TypeRef("S2.Member")), NoArgs, "none") >>),
                TypeDesc("S2.Member", "Member", "Object",
                    << FieldDesc("customer", customer, NoArgs, "none") >>) >>
             \o (IF shape.mutation
                 THEN << TypeDesc("S2.Mutation", "Mutation", "Object",
                            << FieldDesc("promote", customer,
                                   [id |-> MagqlArgument(MagqlNonNull(GraphQLID))],
                                   "PromoteResolver") >>) >>
                 ELSE <<>>)

ExistingSchema(shape) ==
    [query |-> IF shape.empty THEN None ELSE Some("S2.Query"),
     mutation |-> IF shape.mutation THEN Some("S2.Mutation") ELSE None]

---------------------------------------------------------------------------
(* GraphQLSchema.type_map *)

Roots(sch) ==
    {sch.query[i] : i \in 1..Len(sch.query)} \cup {sch.mutation[i] : i \in 1..Len(sch.mutation)}

\* the type objects reached from a set of type objects through field types
\* (argument types are input types and scalars, which merge_schema never
\* joins with an object type of this graph)
RECURSIVE Reachable(_, _, _, _)
Reachable(objs, fobjs, frontier, seen) ==
    IF frontier = {} THEN seen
    ELSE LET next == UNION {{get_object_type(fobjs[objs[n].fields[i].field].type).name :
                                i \in 1..Len(objs[n].fields)} : n \in frontier}
         IN  Reachable(objs, fobjs, next \ (seen \cup frontier), seen \cup frontier)

\* schema.type_map: type name -> type object (no introspection type is in
\* the graph)
type_map(objs, fobjs, sch) ==
    LET reached == Reachable(objs, fobjs, Roots(sch), {})
    IN  [name \in {objs[n].name : n \in reached} |->
            CHOOSE n \in reached : objs[n].name = name]

---------------------------------------------------------------------------
(* MagqlSchema.merge_schema and its helpers (convert.py)                   *)

\* a join in which the fields of type2 replace those of type1
join_types_last_wins(objs, type1, type2) ==
    [error |-> "none",
     type |-> [name |-> objs[type1].name, kind |-> "Object",
               fields |-> DictMerge(objs[type1].fields, objs[type2].fields)]]

\* join_types(type1, type2): a new object type, or the exception
join_types(objs, type1, type2) ==
    IF \E i \in 1..Len(objs[type2].fields) :
           DictHas(objs[type1].fields, objs[type2].fields[i].name)
    THEN [error |-> "Duplicate fields in type, cannot resolve", type |-> <<>>]
    ELSE [error |-> "none",
          type |-> [name |-> objs[type1].name, kind |-> "Object",
                    fields |-> DictMerge(objs[type1].fields, objs[type2].fields)]]

\* get_merged_object_type(return_type, joined_type_map)
RECURSIVE get_merged_object_type(_, _, _)
get_merged_object_type(objs, return_type, joined) ==
    IF return_type.kind = "List"
    THEN MagqlList(get_merged_object_type(objs, return_type.of[1], joined))
    ELSE IF return_type.kind = "NonNull"
    THEN MagqlNonNull(get_merged_object_type(objs, return_type.of[1], joined))
    ELSE LET type_name == objs[return_type.name].name
         IN  IF type_name \in DOMAIN joined THEN TypeRef(joined[type_name]) ELSE return_type

\* the loop over return_type.fields of generate_new_return_type, from entry
\* i on: the type of a field whose named type was joined is reassigned on
\* the field object itself
RECURSIVE rewrite_sub_fields(_, _, _, _, _)
rewrite_sub_fields(objs, fobjs, fields, i, joined) ==
    IF i > Len(fields) THEN fobjs
    ELSE LET field == fields[i].field
             rewritten ==
                 IF objs[get_object_type(fobjs[field].type).name].name \in DOMAIN joined
                 THEN [fobjs EXCEPT ![field].type =
                           get_merged_object_type(objs, fobjs[field].type, joined)]
                 ELSE fobjs
         IN  rewrite_sub_fields(objs, rewritten, fields, i + 1, joined)

\* a rewrite that never substitutes the joined type for the named type
RECURSIVE generate_new_return_type_unsubstituted(_, _, _, _)
generate_new_return_type_unsubstituted(objs, fobjs, return_type, joined) ==
    IF IsWrapper(return_type)
    THEN LET inner == generate_new_return_type_unsubstituted(objs, fobjs,
                                                            return_type.of[1], joined)
         IN  [inner EXCEPT !.type = IF return_type.kind = "List"
                                    THEN MagqlList(inner.type) ELSE MagqlNonNull(inner.type)]
    ELSE IF objs[return_type.name].kind = "Scalar"
    THEN [type |-> return_type, field_objects |-> fobjs, error |-> "AttributeError"]
    ELSE [type |-> return_type,
          field_objects |-> rewrite_sub_fields(objs, fobjs, objs[return_type.name].fields,
                                               1, joined),
          error |-> "none"]

\* generate_new_return_type(return_type, joined_type_map): the new type, the
\* field objects as it leaves them, and the exception if any.  The final
\* return_type.fields = new_sub_fields stores a dict with the entries the
\* type already had, in the same order.
RECURSIVE generate_new_return_type(_, _, _, _)
generate_new_return_type(objs, fobjs, return_type, joined) ==
    IF IsWrapper(return_type)
    THEN LET inner == generate_new_return_type(objs, fobjs, return_type.of[1], joined)
         IN  [inner EXCEPT !.type = IF return_type.kind = "List"
                                    THEN MagqlList(inner.type) ELSE MagqlNonNull(inner.type)]
    ELSE LET type_name == objs[return_type.name].name
             target == IF type_name \in DOMAIN joined THEN joined[type_name]
                       ELSE return_type.name
         IN  IF objs[target].kind = "Scalar"
             THEN [type |-> return_type, field_objects |-> fobjs, error |-> "AttributeError"]
             ELSE [type |-> TypeRef(target),
                   field_objects |-> rewrite_sub_fields(objs, fobjs, objs[target].fields, 1, joined),
                   error |-> "none"]

\* a new field that keeps the type but not the resolver
generate_new_field_unresolved(objs, fobjs, field, joined) ==
    LET type_ == generate_new_return_type(objs, fobjs, field.type, joined)
    IN  [field |-> MagqlField(type_.type, field.args, "none"),
         field_objects |-> type_.field_objects, error |-> type_.error]

\* generate_new_field(field, joined_type_map): a new GraphQLField
generate_new_field(objs, fobjs, field, joined) ==
    LET type_ == generate_new_return_type(objs, fobjs, field.type, joined)
    IN  [field |-> MagqlField(type_.type, field.args, field.resolve),
         field_objects |-> type_.field_objects, error |-> type_.error]

\* getattr(root, "fields", {}) of a root that may be None
RootFields(objs, root) == IF IsNone(root) THEN <<>> ELSE objs[root[1]].fields

\* one of the four loops of merge_schema, from entry i of `fields` on:
\* new_fields[name] = generate_new_field(field, joined_type_map)
RECURSIVE rewrite_root_fields(_, _, _, _, _, _)
rewrite_root_fields(objs, acc, fields, i, joined, root) ==
    IF acc.error # "none" \/ i > Len(fields) THEN acc
    ELSE LET name == fields[i].name
             new == generate_new_field(objs, acc.field_objects,
                                       acc.field_objects[fields[i].field], joined)
         IN  IF new.error # "none"
             THEN [acc EXCEPT !.field_objects = new.field_objects, !.error = new.error]
             ELSE rewrite_root_fields(objs,
                      [field_objects |-> Put(new.field_objects, FieldId(root, name), new.field),
                       new_fields |-> DictPut(acc.new_fields, name, FieldId(root, name)),
                       error |-> "none"],
                      fields, i + 1, joined, root)

\* a root written back into the object of the active schema
same_root(name) == "S1." \o name

\* the id of the root object GraphQLObjectType(name, new_fields) creates
new_root(name) == "New." \o name

\* the id of the object join_types creates for a type name
joined_type(name) == "Joined." \o name

\* merge_schema(schema): the objects, field objects, active schema and
\* joined_type_map it ends with, and the exception if it raises
merge_schema(objs, fobjs, self_schema, other) ==
    LET own_map == type_map(objs, fobjs, self_schema)
        other_map == type_map(objs, fobjs, other)
        common == {n \in DOMAIN other_map \cap DOMAIN own_map :
                      objs[other_map[n]].kind # "Scalar"}
        joins == [n \in common |-> join_types(objs, own_map[n], other_map[n])]
        joined == [n \in common |-> joined_type(n)]
        with_joined == [id \in {joined_type(n) : n \in common} |->
                           joins[CHOOSE n \in common : joined_type(n) = id].type] @@ objs
        start == [field_objects |-> fobjs, new_fields |-> <<>>, error |-> "none"]
        query1 == rewrite_root_fields(with_joined, start,
                      RootFields(objs, self_schema.query), 1, joined, new_root("Query"))
        query2 == rewrite_root_fields(with_joined, query1,
                      RootFields(objs, other.query), 1, joined, new_root("Query"))
        mutation1 == rewrite_root_fields(with_joined,
                      [query2 EXCEPT !.new_fields = <<>>],
                      RootFields(objs, self_schema.mutation), 1, joined, new_root("Mutation"))
        mutation2 == rewrite_root_fields(with_joined, mutation1,
                      RootFields(objs, other.mutation), 1, joined, new_root("Mutation"))
    IN  IF \E n \in common : joins[n].error # "none"
        THEN [objects |-> objs, field_objects |-> fobjs, schema |-> self_schema,
              joined_type_map |-> <<>>,
              error |-> joins[CHOOSE n \in common : joins[n].error # "none"].error]
        ELSE IF mutation2.error # "none"
        THEN [objects |-> objs, field_objects |-> mutation2.field_objects,
              schema |-> self_schema, joined_type_map |-> <<>>, error |-> mutation2.error]
        ELSE [objects |->
                  (new_root("Query") :> [name |-> "Query", kind |-> "Object",
                                         fields |-> query2.new_fields])
                  @@ (new_root("Mutation") :> [name |-> "Mutation", kind |-> "Object",
                                               fields |-> mutation2.new_fields])
                  @@ with_joined,
              field_objects |-> mutation2.field_objects,
              schema |-> [query |-> Some(new_root("Query")),
                          mutation |-> Some(new_root("Mutation"))],
              joined_type_map |-> joined,
              error |-> "none"]

\* an override that replaces the field by one with the resolver only
override_resolver_replacing(objs, fobjs, sch, field_name, resolver) ==
    LET mutation_fields_ == objs[sch.mutation[1]].fields
        query_fields_ == objs[sch.query[1]].fields
    IN  IF DictHas(mutation_fields_, field_name)
        THEN [fobjs EXCEPT ![DictGet(mutation_fields_, field_name)] =
                 MagqlField(@.type, NoArgs, resolver)]
        ELSE IF DictHas(query_fields_, field_name)
        THEN [fobjs EXCEPT ![DictGet(query_fields_, field_name)] =
                 MagqlField(@.type, NoArgs, resolver)]
        ELSE fobjs

\* override_resolver(field_name, resolver)
override_resolver(objs, fobjs, sch, field_name, resolver) ==
    LET mutation_fields_ == objs[sch.mutation[1]].fields
        query_fields_ == objs[sch.query[1]].fields
    IN  IF DictHas(mutation_fields_, field_name)
        THEN [fobjs EXCEPT ![DictGet(mutation_fields_, field_name)].resolve = resolver]
        ELSE IF DictHas(query_fields_, field_name)
        THEN [fobjs EXCEPT ![DictGet(query_fields_, field_name)].resolve = resolver]
        ELSE fobjs

---------------------------------------------------------------------------
(* The assembled schema, merged and overridden *)

\* the batches MagqlSchema has assembled self.schema from
AssembledBatches == {<<"customer">>, <<"customer", "order">>}
AssembledRelationships(tbls) ==
    {r \in {[src |-> "order", name |-> "customer", target |-> "customer",
             direction |-> "MANYTOONE", nullable |-> FALSE],
            [src |-> "customer", name |-> "line_items", target |-> "order",
             direction |-> "ONETOMANY", nullable |-> FALSE]} :
        {r.src, r.target} \subseteq Range(tbls)}

\* the field names the host passes to override_resolver
OverrideNames == {"createcustomer", "customer", "vip", "nosuch"}

\* MagqlSchema.__init__ has assembled self.schema; the host holds a schema
\* of its own
MergeInit ==
    /\ mode = "schema"
    /\ tables \in AssembledBatches
    /\ relationships = AssembledRelationships(tables)
    /\ unmapped = {}
    /\ pc = "assembled"
    /\ idx = 1
    /\ manager_map = <<>>
    /\ LET built == column_pass(tables, Len(tables)) IN
          /\ table_types = wiring_pass(built.table_types, tables, relationships, Len(tables))
          /\ query_fields = built.query_fields
          /\ mutation_fields = built.mutation_fields
    /\ error = "none"
    /\ warnings = {}
    /\ rewired = FALSE
    /\ \E shape \in ExistingShapes :
          LET descs == ScalarTypes \o AssembledTypes("S1", tables, relationships)
                           \o ExistingTypes(shape)
          IN  /\ objects = ObjectsOf(descs)
              /\ field_objects = FieldObjectsOf(descs)
              /\ existing_schema = ExistingSchema(shape)
    /\ schema = [query |-> Some("S1.Query"), mutation |-> Some("S1.Mutation")]
    /\ joined_type_map = <<>>
    /\ overridden = None
    /\ filter_module = "filter"
    /\ kwargs = <<>>
    /\ filter_type = None
    /\ sqla_filters = <<>>
    /\ logged = <<>>

BuildState == <<idx, manager_map, table_types, query_fields, mutation_fields, warnings, rewired>>

\* self.merge_schema(existing_schema)
MergeSchema ==
    /\ pc = "assembled"
    /\ LET merged == merge_schema(objects, field_objects, schema, existing_schema) IN
          /\ objects' = merged.objects
          /\ field_objects' = merged.field_objects
          /\ schema' = merged.schema
          /\ joined_type_map' = merged.joined_type_map
          /\ error' = merged.error
          /\ pc' = IF merged.error = "none" THEN "merged" ELSE "merge_failed"
    /\ UNCHANGED <<Inputs, BuildState, Filtering, existing_schema, overridden>>

\* the host calls override_resolver on the active schema
OverrideResolver ==
    /\ pc \in {"assembled", "merged"}
    /\ IsNone(overridden)
    /\ \E field_name \in OverrideNames :
          /\ field_objects' = override_resolver(objects, field_objects, schema,
                                                field_name, "HostOverride")
          /\ overridden' = Some(field_name)
    /\ UNCHANGED <<Inputs, BuildState, Filtering, pc, error, objects, schema, existing_schema,
                   joined_type_map>>

MergeNext ==
    \/ MergeSchema
    \/ OverrideResolver

MergeSpec == MergeInit /\ [][MergeNext]_vars

---------------------------------------------------------------------------
(* Vocabulary of the merge properties *)

\* the step of merge_schema, whatever its outcome
MergeStep == pc = "assembled" /\ pc' # "assembled"

\* the names merge_schema joins: in both type maps and not a scalar
JoinedNames ==
    LET own_map == type_map(objects, field_objects, schema)
        other_map == type_map(objects, field_objects, existing_schema)
    IN  {n \in DOMAIN own_map \cap DOMAIN other_map : objects[other_map[n]].kind # "Scalar"}

OwnType(n) == type_map(objects, field_objects, schema)[n]
OtherType(n) == type_map(objects, field_objects, existing_schema)[n]

\* two same-named types have a field name in common
ShareField(n) ==
    \E i \in 1..Len(objects[OtherType(n)].fields) :
        DictHas(objects[OwnType(n)].fields, objects[OtherType(n)].fields[i].name)

Distinct(keys) == \A i, j \in 1..Len(keys) : keys[i] = keys[j] => i = j

\* the fields of a root of a schema, as (name, field object) entries
RootEntries(sch, which) == RootFields(objects, sch[which])

---------------------------------------------------------------------------
(* C12: field-merging of same-named types.  For every non-scalar type name *)
(* in the type maps of both schemas: if the two types share a field name,  *)
(* merge_schema raises "Duplicate fields in type, cannot resolve" (and it  *)
(* raises that only then); otherwise, when merge_schema completes, the     *)
(* joined type of that name has exactly the field entries of S1's type in  *)
(* S1's order followed by those of S2's type in S2's order, no field name  *)
(* twice.                                                                  *)

C12_JoinedFields ==
    [][MergeStep =>
        /\ \A n \in JoinedNames :
              IF ShareField(n)
              THEN pc' = "merge_failed" /\ error' = "Duplicate fields in type, cannot resolve"
              ELSE pc' = "merged" =>
                      /\ n \in DOMAIN joined_type_map'
                      /\ objects'[joined_type_map'[n]].name = n
                      /\ objects'[joined_type_map'[n]].fields =
                             objects[OwnType(n)].fields \o objects[OtherType(n)].fields
                      /\ Distinct(DictKeys(objects'[joined_type_map'[n]].fields))
        /\ error' = "Duplicate fields in type, cannot resolve" =>
              \E n \in JoinedNames : ShareField(n)]_vars

\* Customer {id, name} of the assembled schema joined with the host's
\* Customer {age, email}
C12_Witness ==
    /\ pc = "merged" /\ tables = <<"customer">>
    /\ "Customer" \in DOMAIN joined_type_map
    /\ DictKeys(objects[joined_type_map["Customer"]].fields) = <<"id", "name", "age", "email">>

---------------------------------------------------------------------------
(* C13: root fields return the joined type.  After merge_schema completes, *)
(* every field of the new root Query and Mutation whose named return type  *)
(* has a joined name returns the joined type object, and that object has   *)
(* the fields of S1's type followed by those of S2's.                      *)

C13_RootsReturnJoined ==
    pc = "merged" =>
        \A which \in {"query", "mutation"} :
            \A i \in 1..Len(RootEntries(schema, which)) :
                LET field == field_objects[RootEntries(schema, which)[i].field]
                    named == get_object_type(field.type).name
                    n == objects[named].name
                IN  n \in DOMAIN joined_type_map =>
                        /\ named = joined_type_map[n]
                        /\ DictKeys(objects[named].fields) =
                               DictKeys(objects[TypeId("S1", n)].fields)
                                   \o DictKeys(objects[TypeId("S2", n)].fields)

\* the host's vip field, returning [Customer!], and the assembled customer
\* field both return the joined Customer with name and age
C13_Witness ==
    /\ pc = "merged"
    /\ DictHas(RootEntries(schema, "query"), "vip")
    /\ field_objects[DictGet(RootEntries(schema, "query"), "vip")].type =
           MagqlList(MagqlNonNull(TypeRef(joined_type("Customer"))))
    /\ field_objects[DictGet(RootEntries(schema, "query"), "customer")].type =
           TypeRef(joined_type("Customer"))
    /\ DictHas(objects[joined_type("Customer")].fields, "name")
    /\ DictHas(objects[joined_type("Customer")].fields, "age")

---------------------------------------------------------------------------
(* C14: one type object per name.  As claimed: after merge_schema          *)
(* completes, no two distinct type objects reachable from the new roots,   *)
(* at any depth, have the same name.                                       *)

C14_NoStaleType ==
    pc = "merged" =>
        LET reached == Reachable(objects, field_objects, Roots(schema), {})
        IN  \A a, b \in reached : objects[a].name = objects[b].name => a = b

---------------------------------------------------------------------------
(* C15: wrapper stacks.  As claimed: for every stack of List / NonNull     *)
(* wrappers around a named type T, get_merged_object_type and              *)
(* generate_new_return_type return the same stack around the joined type   *)
(* of T's name if there is one and around T otherwise.                     *)

Substituted(id) ==
    IF objects[id].name \in DOMAIN joined_type_map
    THEN joined_type_map[objects[id].name] ELSE id

C15_WrapperRoundTrip ==
    pc = "merged" =>
        \A id \in DOMAIN objects : \A stack \in Stacks :
            LET return_type == Wrap(stack, TypeRef(id))
                rewritten == generate_new_return_type(objects, field_objects, return_type,
                                                      joined_type_map)
            IN  /\ get_merged_object_type(objects, return_type, joined_type_map)
                       = Wrap(stack, TypeRef(Substituted(id)))
                /\ rewritten.error = "none"
                /\ rewritten.type = Wrap(stack, TypeRef(Substituted(id)))

---------------------------------------------------------------------------
(* C16: merging with an empty schema.  merge_schema with a schema that has *)
(* no query type and no mutation type completes without error, and the new *)
(* root Query and Mutation have the field names of the active schema's     *)
(* roots in the same order, each field with the same return type,          *)
(* arguments and resolver.                                                 *)

EmptySchema == [query |-> None, mutation |-> None]

C16_MergeWithEmpty ==
    [][(MergeStep /\ existing_schema = EmptySchema) =>
        /\ pc' = "merged" /\ error' = "none"
        /\ \A which \in {"query", "mutation"} :
              LET old == objects[schema[which][1]].fields
                  new == objects'[schema'[which][1]].fields
              IN  /\ DictKeys(new) = DictKeys(old)
                  /\ \A i \in 1..Len(old) :
                        field_objects'[new[i].field] = field_objects[old[i].field]]_vars

\* the schema of customer and order, its createcustomer resolver overridden,
\* merged with the empty schema
C16_Witness ==
    /\ pc = "merged" /\ existing_schema = EmptySchema
    /\ DictKeys(RootEntries(schema, "query")) = <<"customer", "customers", "order", "orders">>
    /\ field_objects[DictGet(RootEntries(schema, "mutation"), "createcustomer")].resolve
           = "HostOverride"
    /\ field_objects[DictGet(RootEntries(schema, "query"), "orders")].type
           = MagqlList(TypeRef("S1.Order"))

---------------------------------------------------------------------------
(* C17: the same root field name in both schemas.  As claimed: when both   *)
(* schemas have a root Query (or Mutation) field of one name, and nothing  *)
(* else stands in the way of the merge, merge_schema completes and the new *)
(* root's field of that name has the return type, arguments and resolver   *)
(* of S2's field.                                                          *)

\* the names that are fields of the same root in both schemas
SharedRootNames(which) ==
    {RootEntries(schema, which)[i].name : i \in 1..Len(RootEntries(schema, which))}
        \cap {RootEntries(existing_schema, which)[i].name :
                 i \in 1..Len(RootEntries(existing_schema, which))}

\* no other cause of an exception: no two same-named types other than the
\* roots share a field, and every root field returns a type with fields
NothingElseRaises ==
    /\ \A n \in JoinedNames : ShareField(n) =>
          \E which \in {"query", "mutation"} :
              /\ ~IsNone(schema[which]) /\ ~IsNone(existing_schema[which])
              /\ OwnType(n) = schema[which][1]
              /\ OtherType(n) = existing_schema[which][1]
    /\ \A sch \in {schema, existing_schema} : \A which \in {"query", "mutation"} :
          \A i \in 1..Len(RootEntries(sch, which)) :
              objects[get_object_type(
                  field_objects[RootEntries(sch, which)[i].field].type).name].kind # "Scalar"

C17_LastWriteWins ==
    [][(MergeStep /\ NothingElseRaises) =>
        \A which \in {"query", "mutation"} : \A name \in SharedRootNames(which) :
            /\ pc' = "merged"
            /\ LET theirs == field_objects[DictGet(RootEntries(existing_schema, which), name)]
                   new == field_objects'[DictGet(objects'[schema'[which][1]].fields, name)]
               IN  /\ StackOf(new.type) = StackOf(theirs.type)
                   /\ objects'[get_object_type(new.type).name].name
                          = objects[get_object_type(theirs.type).name].name
                   /\ new.args = theirs.args
                   /\ new.resolve = theirs.resolve]_vars

---------------------------------------------------------------------------
(* C18: the roots of S1 and S2 are not mutated.  A merge_schema step,      *)
(* whatever its outcome, leaves the root Query and Mutation objects of the *)
(* active schema and of the schema handed in with the same field names and *)
(* field objects, and each of those field objects with the same type,      *)
(* arguments and resolver; when it completes, the roots of the active      *)
(* schema are objects that did not exist before.                           *)

C18_RootsNotMutated ==
    [][MergeStep =>
        /\ \A root \in Roots(schema) \cup Roots(existing_schema) :
              /\ objects'[root] = objects[root]
              /\ \A i \in 1..Len(objects[root].fields) :
                    field_objects'[objects[root].fields[i].field]
                        = field_objects[objects[root].fields[i].field]
        /\ pc' = "merged" => Roots(schema') \cap DOMAIN objects = {}]_vars

\* a completed merge that joined Customer and took root fields from both
\* schemas, the old roots being as MagqlSchema and the host built them
C18_Witness ==
    /\ pc = "merged" /\ "Customer" \in DOMAIN joined_type_map
    /\ DictKeys(RootEntries(schema, "query")) = <<"customer", "customers", "vip">>
    /\ DictKeys(RootEntries(schema, "mutation"))
           = <<"createcustomer", "updatecustomer", "deletecustomer", "promote">>
    /\ DictKeys(objects["S1.Query"].fields) = <<"customer", "customers">>
    /\ DictKeys(objects["S2.Query"].fields) = <<"vip">>
    /\ field_objects["S1.Query.customer"].type = TypeRef("S1.Customer")
    /\ field_objects["S2.Mutation.promote"].type = TypeRef("S2.Customer")

---------------------------------------------------------------------------
(* C19: override_resolver.  A call with a name that is a field of the      *)
(* active schema's root Mutation, or else of its root Query, sets the      *)
(* resolver of that field and changes nothing else: not its type, not its  *)
(* arguments, no other field object, no type object.  A call with a name   *)
(* in neither root changes nothing and raises nothing.                     *)

OverrideStep == IsNone(overridden) /\ ~IsNone(overridden')

C19_OverrideResolver ==
    [][OverrideStep =>
        LET field_name == overridden'[1]
            in_mutation == DictHas(RootEntries(schema, "mutation"), field_name)
            in_query == DictHas(RootEntries(schema, "query"), field_name)
            target == IF in_mutation THEN DictGet(RootEntries(schema, "mutation"), field_name)
                      ELSE DictGet(RootEntries(schema, "query"), field_name)
        IN  /\ objects' = objects /\ schema' = schema /\ error' = error /\ pc' = pc
            /\ DOMAIN field_objects' = DOMAIN field_objects
            /\ IF in_mutation \/ in_query
               THEN /\ field_objects'[target].resolve = "HostOverride"
                    /\ field_objects'[target].type = field_objects[target].type
                    /\ field_objects'[target].args = field_objects[target].args
                    /\ \A f \in DOMAIN field_objects \ {target} :
                          field_objects'[f] = field_objects[f]
               ELSE field_objects' = field_objects]_vars

\* the customer query of the merged schema, overridden after the merge
C19_Witness ==
    /\ pc = "merged" /\ overridden = Some("customer")
    /\ field_objects[DictGet(RootEntries(schema, "query"), "customer")].resolve = "HostOverride"
    /\ field_objects[DictGet(RootEntries(schema, "query"), "customer")].args
           = [id |-> MagqlArgument(MagqlNonNull(GraphQLID))]
    /\ field_objects["S1.Query.customer"].resolve = "SingleResolver"

---------------------------------------------------------------------------
(* C21: the nodes of the column pass.  As claimed: once the column pass    *)
(* has run for a table and before relationship wiring reaches it, five     *)
(* nodes are registered under the names <Entity>, <Entity>Input,           *)
(* <Entity>InputRequired, <Entity>Filter and <Entity>Sort, and each of the *)
(* Object, Input, InputRequired and Filter nodes has exactly one field per *)
(* column that is not a foreign key, primary-key columns included, named   *)
(* by camel-casing the column name.                                        *)

\* the column pass has run for t and relationship wiring has not reached it
ColumnsOnly(t) ==
    /\ t \in MappedTables /\ Built(t)
    /\ pc = "pass1" \/ (pc = "pass2" /\ Pos(t) >= idx)

NodeSuffix(which) == IF which = "Object" THEN "" ELSE which

\* the five nodes are registered under their names
FiveNodes(t) ==
    /\ \A which \in WiredNodes : NodeOf(t, which).name = camelize(t) \o NodeSuffix(which)
    /\ NodeOf(t, "Object").kind = "Object"
    /\ \A which \in WiredNodes \ {"Object"} : NodeOf(t, which).kind = "InputObject"
    /\ SortOf(t).name = camelize(t) \o "Sort" /\ SortOf(t).kind = "Enum"
    /\ mode = "manager" =>
          \A suffix \in {"", "Input", "InputRequired", "Filter", "Sort"} :
              /\ (camelize(t) \o suffix) \in DOMAIN TableManager(t).magql_types
              /\ TableManager(t).magql_types[camelize(t) \o suffix].name = camelize(t) \o suffix

C21_FieldPerColumn ==
    \A t \in Range(tables) : ColumnsOnly(t) =>
        /\ FiveNodes(t)
        /\ \A which \in WiredNodes :
              /\ DOMAIN NodeOf(t, which).fields =
                     {js_camelize(Columns(t)[i].name) : i \in NonForeignKeyColumns(t)}
              /\ Cardinality(DOMAIN NodeOf(t, which).fields)
                     = Cardinality(NonForeignKeyColumns(t))

(* C21 as amended: the same, except that the Input and InputRequired nodes *)
(* which MagqlTableManager.generate_types builds have no field for a       *)
(* primary-key column; those which MagqlSchema builds have one.            *)

\* the columns of t that get a field on the node
FieldColumns(t, which) ==
    {i \in NonForeignKeyColumns(t) :
        (mode = "manager" /\ which \in {"Input", "InputRequired"})
            => ~Columns(t)[i].primary_key}

C21_FieldPerColumnButKeys ==
    \A t \in Range(tables) : ColumnsOnly(t) =>
        /\ FiveNodes(t)
        /\ \A which \in WiredNodes :
              /\ DOMAIN NodeOf(t, which).fields =
                     {js_camelize(Columns(t)[i].name) : i \in FieldColumns(t, which)}
              /\ Cardinality(DOMAIN NodeOf(t, which).fields)
                     = Cardinality(FieldColumns(t, which))

\* the order table after the first loop of the collection: its foreign-key
\* column customer_id has no field, its key column id none on the inputs
C21_Witness ==
    /\ mode = "manager" /\ pc = "pass2" /\ idx = 1
    /\ "order" \in Range(tables) /\ ColumnsOnly("order")
    /\ DOMAIN NodeOf("order", "Object").fields = {"id", "lineItems"}
    /\ DOMAIN NodeOf("order", "Filter").fields = {"id", "lineItems"}
    /\ DOMAIN NodeOf("order", "Input").fields = {"lineItems"}
    /\ DOMAIN NodeOf("order", "InputRequired").fields = {"lineItems"}
    /\ RelsOf("order") # {}

---------------------------------------------------------------------------
(* generate_filters (filter.py and its older copy magql_filter.py)         *)
(*                                                                         *)
(* A call goes through the entries of kwargs["filter"], looks up the       *)
(* storage type of the column or the relationship each entry names,        *)
(* dispatches on it for a comparator and appends what the comparator's     *)
(* condition returns.  The table of the call is fixed; the entries of the  *)
(* call are drawn in FilterInit.                                           *)

\* most entries of one filter argument
MaxFilters == 2

\* table.c of the table the call is about: column name to storage type
TableColumns ==
    [title |-> "String", starts_on |-> "Date", created_at |-> "DateTime",
     opens_at |-> "Time", seats |-> "Integer", open |-> "Boolean",
     status |-> "ChoiceType", attachment |-> "LargeBinary"]

\* mapper.relationships of its mapped class: name to direction
MapperRelationships == [venue |-> "MANYTOONE", guests |-> "ONETOMANY"]

\* inflection.underscore(word)
underscore(w) ==
    CASE w = "startsOn" -> "starts_on"
      [] w = "createdAt" -> "created_at"
      [] w = "opensAt" -> "opens_at"
      [] w = "noSuch" -> "no_such"
      [] OTHER -> w

\* the base class of a storage type in sqlalchemy, or "object"
BaseOf(type) ==
    CASE type = "VARCHAR" -> "String"
      [] type = "Text" -> "String"
      [] type = "Unicode" -> "String"
      [] type = "UnicodeText" -> "Text"
      [] type = "FLOAT" -> "Float"
      [] type = "Float" -> "Numeric"
      [] type = "DECIMAL" -> "Numeric"
      [] OTHER -> "object"

\* the classes a comparator is registered for, and which comparator
Registry(module) ==
    IF module = "filter"
    THEN [RelationshipProperty |-> "rel", DateTime |-> "date", Date |-> "date",
          JSONType |-> "string", Text |-> "string", UnicodeText |-> "string",
          Unicode |-> "string", URLType |-> "string", PhoneNumberType |-> "string",
          EmailType |-> "string", Time |-> "string", String |-> "string",
          VARCHAR |-> "string", FLOAT |-> "number", DECIMAL |-> "number",
          Integer |-> "number", Boolean |-> "boolean", ChoiceType |-> "choice"]
    ELSE [RelationshipProperty |-> "rel", JSONType |-> "string", DateTime |-> "string",
          Text |-> "string", Date |-> "string", UnicodeText |-> "string",
          Unicode |-> "string", URLType |-> "string", PhoneNumberType |-> "string",
          EmailType |-> "string", Time |-> "string", String |-> "string",
          VARCHAR |-> "string", FLOAT |-> "number", DECIMAL |-> "number",
          Integer |-> "number", Boolean |-> "boolean", ChoiceType |-> "choice"]

\* singledispatch: the registration of the nearest class of the method
\* resolution order, or the default implementation
RECURSIVE dispatch(_, _)
dispatch(module, class) ==
    IF class \in DOMAIN Registry(module) THEN Registry(module)[class]
    ELSE IF class = "object" THEN "default"
    ELSE dispatch(module, BaseOf(class))

NOT_FOUND == "filter operator not found"

\* what the default implementation and the else branches emit
comparator_not_found(module) ==
    IF module = "filter" THEN NOT_FOUND ELSE "Filter comparator type not found"

\* get_filter_comparator(filter_type): the comparator, or None from the
\* default implementation or from a relationship of neither direction
get_filter_comparator(module, type) ==
    LET class == IF type.kind = "relationship" THEN "RelationshipProperty" ELSE type.type
        found == dispatch(module, class)
    IN  IF found = "default" THEN None
        ELSE IF found = "rel" /\ module = "filter"
        THEN CASE type.type \in {"MANYTOONE"} -> Some("rel_to_one")
               [] type.type \in {"ONETOMANY", "MANYTOMANY"} -> Some("rel_to_many")
               [] OTHER -> None
        ELSE Some(found)

\* a filter expression of sqlalchemy
Expr(op, field, value) == [op |-> op, field |-> field, value |-> value]

\* condition(filter_value, filter_operator, field) of each comparator: what
\* it returns (None when it falls through) and what it emits
Returns(expr) == [result |-> Some(expr), logged |-> <<>>]
FallsThrough(message) == [result |-> None, logged |-> message]

condition(module, comparator, filter_value, filter_operator, field) ==
    LET not_found == IF module = "filter" THEN <<NOT_FOUND>>
                     ELSE <<"filter operator not found">>
    IN
    CASE comparator = "rel_to_one" ->
           IF filter_operator = "INCLUDES" THEN Returns(Expr("==", field, filter_value))
           ELSE FallsThrough(<<"filter operator not found">>)
      [] comparator = "rel_to_many" ->
           IF filter_operator = "INCLUDES" THEN Returns(Expr("any contains", field, filter_value))
           ELSE FallsThrough(<<>>)
      [] comparator = "rel" ->
           IF filter_operator = "INCLUDES" THEN Returns(Expr("==", field, filter_value))
           ELSE FallsThrough(not_found)
      [] comparator = "date" ->
           CASE filter_operator = "BEFORE" -> Returns(Expr("<", field, filter_value))
             [] filter_operator = "ON" -> Returns(Expr("==", field, filter_value))
             [] filter_operator = "After" -> Returns(Expr(">", field, filter_value))
             [] OTHER -> FallsThrough(<<>>)
      [] comparator = "string" ->
           CASE filter_operator = "INCLUDES" -> Returns(Expr("like", field, filter_value))
             [] filter_operator = "EQUALS" -> Returns(Expr("==", field, filter_value))
             [] OTHER -> FallsThrough(not_found)
      [] comparator = "number" ->
           CASE filter_operator = "lt" -> Returns(Expr("<", field, filter_value))
             [] filter_operator = "lte" -> Returns(Expr("<=", field, filter_value))
             [] filter_operator = "eq" -> Returns(Expr("==", field, filter_value))
             [] filter_operator = "neq" -> Returns(Expr("!=", field, filter_value))
             [] filter_operator = "gt" -> Returns(Expr(">", field, filter_value))
             [] filter_operator = "gte" -> Returns(Expr(">=", field, filter_value))
             [] OTHER -> FallsThrough(not_found)
      [] comparator = "boolean" ->
           IF module = "filter"
           THEN CASE filter_operator = "EQUALS" -> Returns(Expr("==", field, filter_value))
                  [] filter_operator = "NOTEQUALS" -> Returns(Expr("!=", field, filter_value))
                  [] OTHER -> FallsThrough(not_found)
           ELSE CASE filter_operator = "TRUE" -> Returns(Expr("column", field, ""))
                  [] filter_operator = "FALSE" -> Returns(Expr("not", field, ""))
                  [] OTHER -> FallsThrough(not_found)
      [] comparator = "choice" ->
           IF module = "filter"
           THEN IF filter_operator = "INCLUDES" THEN Returns(Expr("==", field, filter_value))
                ELSE FallsThrough(not_found)
           ELSE CASE filter_operator = "includes" -> Returns(Expr("==", field, filter_value))
                  [] filter_operator = "excludes" -> Returns(Expr("!=", field, filter_value))
                  [] OTHER -> FallsThrough(not_found)

\* the values of the operator enum each filter input type declares
OperatorEnum(module, filter_name) ==
    CASE filter_name = "StringFilter" -> {"INCLUDES", "EQUALS"}
      [] filter_name = "DateFilter" ->
           IF module = "filter" THEN {"BEFORE", "ON", "AFTER"} ELSE {}
      [] filter_name \in {"IntFilter", "FloatFilter"} ->
           {"lt", "lte", "eq", "neq", "gt", "gte"}
      [] filter_name = "RelFilter" -> {"INCLUDES"}
      [] filter_name = "BooleanFilter" ->
           IF module = "filter" THEN {"EQUALS", "NOTEQUALS"} ELSE {"TRUE", "FALSE"}
      [] filter_name = "EnumFilter" ->
           IF module = "filter" THEN {"INCLUDES"} ELSE {"INCLUDES", "EXCLUDES"}
      [] OTHER -> {}

\* the filter input type the column pass gives a column of a storage type
\* (magql.type.get_magql_filter_type: the filter-operator-by-type table)
FilterTypeOf(type) ==
    CASE type \in {"String", "VARCHAR", "Text", "Unicode", "UnicodeText", "URLType",
                   "EmailType", "PhoneNumberType", "JSONType"} -> "StringFilter"
      [] type \in {"Date", "DateTime", "Time"} -> "DateFilter"
      [] type = "Integer" -> "IntFilter"
      [] type \in {"FLOAT", "Float", "DECIMAL", "Numeric"} -> "FloatFilter"
      [] type = "Boolean" -> "BooleanFilter"
      [] type = "ChoiceType" -> "EnumFilter"
      [] OTHER -> "NotFound"

\* one iteration of the loop of generate_filters, for the entry
\* filter_name: gql_filter.  `bound` is filter_type as the iterations before
\* left it; `row` says whether the query for the related row finds one.
filter_entry(module, entry, bound, row) ==
    LET filter_name == IF module = "filter" THEN underscore(entry.name) ELSE entry.name
        is_column == filter_name \in DOMAIN TableColumns
        is_rel == ~is_column /\ filter_name \in DOMAIN MapperRelationships
        now == IF is_column
               THEN Some([kind |-> "column", type |-> TableColumns[filter_name]])
               ELSE IF is_rel
               THEN Some([kind |-> "relationship", type |-> MapperRelationships[filter_name]])
               ELSE bound
        gql_filter_value == IF is_rel THEN "row" ELSE entry.value
        unknown == IF is_column \/ is_rel THEN <<>> ELSE <<"Unknown field on sqlamodel">>
        Raise(exception, messages) ==
            [filter_type |-> now, appended |-> <<>>, logged |-> messages, error |-> exception]
    IN  IF is_rel /\ ~row THEN Raise("NoResultFound", <<>>)
        ELSE IF IsNone(now) THEN Raise("UnboundLocalError", unknown)
        ELSE LET comparator == get_filter_comparator(module, now[1])
                 missing == IF comparator = None /\ dispatch(module,
                                   IF now[1].kind = "relationship" THEN "RelationshipProperty"
                                   ELSE now[1].type) = "default"
                            THEN <<comparator_not_found(module)>> ELSE <<>>
             IN  IF ~(is_column \/ is_rel) THEN Raise("AttributeError", unknown \o missing)
                 ELSE IF IsNone(comparator) THEN Raise("TypeError", unknown \o missing)
                 ELSE LET sql_filter == condition(module, comparator[1], gql_filter_value,
                                                  entry.operator, filter_name)
                      IN  [filter_type |-> now, appended |-> <<sql_filter.result>>,
                           logged |-> unknown \o missing \o sql_filter.logged,
                           error |-> "none"]

---------------------------------------------------------------------------
(* The calls of generate_filters *)

\* the field names a request may filter on, and one that the table lacks
FilterNames ==
    {"title", "startsOn", "createdAt", "opensAt", "seats", "open", "status",
     "attachment", "venue", "guests", "noSuch"}

\* the operators a request may send for a field: the values of the operator
\* enum of the field's filter input type
OperatorsFor(module, name) ==
    LET column == underscore(name) IN
    IF column \in DOMAIN TableColumns
    THEN LET declared == OperatorEnum(module, FilterTypeOf(TableColumns[column]))
         IN  IF FilterTypeOf(TableColumns[column]) = "NotFound" THEN {"EQUALS"} ELSE declared
    ELSE IF column \in DOMAIN MapperRelationships THEN OperatorEnum(module, "RelFilter")
    ELSE {"EQUALS"}

FilterEntries(module) ==
    UNION {{[name |-> name, operator |-> operator, value |-> "v"] :
               operator \in OperatorsFor(module, name)} : name \in FilterNames}

\* the dicts of at most n entries, in insertion order
RECURSIVE FilterDicts(_, _)
FilterDicts(module, n) ==
    IF n = 0 THEN {<<>>}
    ELSE LET shorter == FilterDicts(module, n - 1) IN
         shorter \cup
         UNION {{Append(d, e) : e \in {x \in FilterEntries(module) :
                                          \A i \in 1..Len(d) : d[i].name # x.name}} :
                   d \in {x \in shorter : Len(x) = n - 1}}

FilterInit ==
    /\ mode = "manager"
    /\ tables = <<>>
    /\ relationships = {}
    /\ unmapped = {}
    /\ pc = "call"
    /\ idx = 1
    /\ manager_map = <<>>
    /\ table_types = <<>>
    /\ query_fields = <<>>
    /\ mutation_fields = <<>>
    /\ error = "none"
    /\ warnings = {}
    /\ rewired = FALSE
    /\ objects = <<>>
    /\ field_objects = <<>>
    /\ schema = [query |-> None, mutation |-> None]
    /\ existing_schema = [query |-> None, mutation |-> None]
    /\ joined_type_map = <<>>
    /\ overridden = None
    /\ filter_module \in {"filter", "magql_filter"}
    /\ kwargs \in {<<>>, [filter |-> None]}
                     \cup {[filter |-> Some(d)] : d \in FilterDicts(filter_module, MaxFilters)}
    /\ filter_type = None
    /\ sqla_filters = <<>>
    /\ logged = <<>>

Constructed == <<manager_map, table_types, query_fields, mutation_fields, warnings, rewired>>

\* the test before the loop, and gql_filters.items()
EnterFilters ==
    /\ pc = "call"
    /\ IF "filter" \notin DOMAIN kwargs
       THEN pc' = "returned" /\ error' = error
       ELSE IF IsNone(kwargs.filter)
       THEN IF filter_module = "filter"
            THEN pc' = "returned" /\ error' = error
            ELSE pc' = "raised" /\ error' = "AttributeError"
       ELSE /\ pc' = IF Len(kwargs.filter[1]) = 0 THEN "returned" ELSE "loop"
            /\ error' = error
    /\ UNCHANGED <<Inputs, Graph, Constructed, idx, Filtering>>

\* one iteration of the loop, for the entry idx
FilterEntry ==
    /\ pc = "loop"
    /\ \E row \in BOOLEAN :
          LET gql_filters == kwargs.filter[1]
              step == filter_entry(filter_module, gql_filters[idx], filter_type, row)
          IN  /\ filter_type' = step.filter_type
              /\ sqla_filters' = sqla_filters \o step.appended
              /\ logged' = logged \o step.logged
              /\ error' = step.error
              /\ IF step.error # "none" THEN pc' = "raised" /\ idx' = idx
                 ELSE IF idx = Len(gql_filters) THEN pc' = "returned" /\ idx' = idx
                 ELSE pc' = pc /\ idx' = idx + 1
    /\ UNCHANGED <<Inputs, Graph, Constructed, filter_module, kwargs>>

FilterNext ==
    \/ EnterFilters
    \/ FilterEntry

FilterSpec == FilterInit /\ [][FilterNext]_vars

---------------------------------------------------------------------------
(* Vocabulary of the properties of generate_filters *)

\* the entries of the call, in order
GqlFilters == IF "filter" \in DOMAIN kwargs /\ ~IsNone(kwargs.filter) THEN kwargs.filter[1] ELSE <<>>

\* the key under which generate_filters looks an entry up
LookedUp(e) == IF filter_module = "filter" THEN underscore(e.name) ELSE e.name

OnColumn(e) == LookedUp(e) \in DOMAIN TableColumns
StorageType(e) == TableColumns[LookedUp(e)]

\* the operator of e is a value of the operator enum of its column's filter
Declared(e) ==
    OnColumn(e) /\ e.operator \in OperatorEnum(filter_module, FilterTypeOf(StorageType(e)))

\* no comparator is registered for the storage type of e's column
Unsupported(e) == OnColumn(e) /\ dispatch(filter_module, StorageType(e)) = "default"

---------------------------------------------------------------------------
(* C22: every declared operator is handled.  As claimed: whenever the loop *)
(* of generate_filters has handled an entry on a column with an operator   *)
(* that the operator enum of the column's filter type declares, the        *)
(* comparator's condition has returned a filter expression and not None;   *)
(* on a date, datetime or time column BEFORE gives field < value, ON gives *)
(* field == value and AFTER gives field > value, and on a choice column    *)
(* INCLUDES gives an expression.                                           *)

DateExpr(e) ==
    Expr(CASE e.operator = "BEFORE" -> "<"
           [] e.operator = "ON" -> "=="
           [] e.operator = "AFTER" -> ">",
         LookedUp(e), e.value)

C22_DeclaredOperatorsHandled ==
    \A i \in 1..Len(sqla_filters) :
        LET e == GqlFilters[i] IN
        Declared(e) =>
            /\ ~IsNone(sqla_filters[i])
            /\ StorageType(e) \in {"Date", "DateTime", "Time"}
                   => sqla_filters[i] = Some(DateExpr(e))

---------------------------------------------------------------------------
(* C23: an unsupported storage type is a no-op.  As claimed: a call whose  *)
(* entries are all on columns of the table, one of them on a column whose  *)
(* storage type has no registered comparator, returns without raising, has *)
(* emitted the not-found message, and sqla_filters holds the condition of  *)
(* every entry on a supported column.                                      *)

Finished == pc \in {"returned", "raised"}

\* what the condition of a supported entry returns
ConditionOf(e) ==
    condition(filter_module,
              get_filter_comparator(filter_module,
                                    [kind |-> "column", type |-> StorageType(e)])[1],
              e.value, e.operator, LookedUp(e)).result

C23_UnsupportedIsNoOp ==
    (/\ Finished
     /\ \A i \in 1..Len(GqlFilters) : OnColumn(GqlFilters[i])
     /\ \E i \in 1..Len(GqlFilters) : Unsupported(GqlFilters[i]))
        => /\ pc = "returned" /\ error = "none"
           /\ comparator_not_found(filter_module) \in Range(logged)
           /\ \A i \in 1..Len(GqlFilters) :
                 ~Unsupported(GqlFilters[i]) =>
                     ConditionOf(GqlFilters[i]) \in Range(sqla_filters)

---------------------------------------------------------------------------
(* C24: overrides and merges in any order.  Every merge_schema step,       *)
(* whether override_resolver has been called before it or not and whether  *)
(* it completes or raises, leaves each root field of the active schema     *)
(* with the resolver it had, unless the schema handed in has a field of    *)
(* that name on the same root; so a resolver set by override_resolver      *)
(* outlasts every later merge.  An override_resolver step after a merge    *)
(* sets the resolver on the field of the merged schema's root and leaves   *)
(* the fields of the roots the merge started from as they were.            *)

\* the roots the schemas had before any merge
FirstRoots == {"S1.Query", "S1.Mutation"} \cup Roots(existing_schema)

C24_OverrideOutlastsMerge ==
    [][/\ MergeStep =>
             \A which \in {"query", "mutation"} :
                 \A i \in 1..Len(RootEntries(schema, which)) :
                     LET name == RootEntries(schema, which)[i].name
                         after == objects'[schema'[which][1]].fields
                     IN  ~DictHas(RootEntries(existing_schema, which), name) =>
                             /\ DictHas(after, name)
                             /\ field_objects'[DictGet(after, name)].resolve
                                    = field_objects[RootEntries(schema, which)[i].field].resolve
       /\ (OverrideStep /\ pc = "merged") =>
             LET name == overridden'[1]
                 which == IF DictHas(RootEntries(schema, "mutation"), name)
                          THEN "mutation" ELSE "query"
             IN  /\ Roots(schema) \cap FirstRoots = {}
                 /\ DictHas(RootEntries(schema, which), name) =>
                       field_objects'[DictGet(RootEntries(schema, which), name)].resolve
                           = "HostOverride"
                 /\ \A root \in FirstRoots : \A i \in 1..Len(objects[root].fields) :
                       field_objects'[objects[root].fields[i].field]
                           = field_objects[objects[root].fields[i].field]]_vars

\* createcustomer overridden on the assembled schema, which was then merged
\* with a schema of other root fields: the merged schema's createcustomer
\* has the host's resolver
C24_Witness ==
    /\ pc = "merged" /\ overridden = Some("createcustomer")
    /\ ~IsNone(existing_schema.query) /\ ~IsNone(existing_schema.mutation)
    /\ field_objects["S1.Mutation.createcustomer"].resolve = "HostOverride"
    /\ schema.mutation = Some(new_root("Mutation"))
    /\ field_objects[DictGet(RootEntries(schema, "mutation"), "createcustomer")].resolve
           = "HostOverride"
    /\ field_objects[DictGet(RootEntries(schema, "mutation"), "promote")].resolve
           = "PromoteResolver"

====
